---- MODULE Spec2Model ----
(***************************************************************************)
(* Verification model of GoSearch: the snapshot manager                    *)
(* (internal/snapshot), the 7-phase commit protocol (internal/commit),     *)
(* the 9-step recovery protocol (internal/recovery) and the per-index      *)
(* commit entry point of the server (internal/server).                     *)
(***************************************************************************)
EXTENDS Integers, Sequences, FiniteSets, TLC

(***************************************************************************)
(* Bounds                                                                  *)
(***************************************************************************)
NumThreads == 2
MaxSnapshots == 2
MaxSegs == 2
\* generations offered to UpdateGeneration, segments of the initial manifest
MaxGen == MaxSegs + 1
InitSegs == MaxSegs - 1

\* commit / recovery
MaxDiskGen == 2
MaxDiskSegs == 2
MaxFaults == 2
MaxRetention == 1

\* segment refs whose mutex the lock model follows
MaxLockRefs == 1

\* server
MaxWriters == 2
MaxDocs == 1

\* storage: atomic writes started, bytes per file, crashes
MaxWrites == 2
DataLen == 2
MaxCrashes == 1

\* index: values of a manifest field that are marshalled
MaxCodecVal == 2

\* engine: doc ids, calls that return false
MaxDoc == 2
MaxFalse == 2

\* engine: collector sizes, scores, Collect calls
MaxK == 3
MaxScore == 5
MaxCollects == 5

\* automaton: target and input lengths
MaxTargetLen == 3
MaxInputLen == 4

\* automaton: pattern lengths
MaxPatternLen == 3

\* engine: the limits of an execution context, CheckLimits calls
MaxStatesVisited == 1
MaxTermsMatched == 1
MaxChecks == 130

\* query: the nodes of a query, minimum_should_match
MaxNodes == 4
MaxMinShould == 1

\* indexing: internal doc ids handed out by a write buffer
MaxBufferDocs == 2

Threads == 1..NumThreads
SegIds == 1..MaxSegs
DiskGens == 1..MaxDiskGen
LockIds == 1..MaxLockRefs

VARIABLES
    \* ---- snapshot.Manager ----
    currentGeneration,   \* Manager.currentGeneration
    currentSegments,     \* Manager.currentSegments: segment id -> ref
    refs,                \* heap of SegmentRef objects, indexed by identity
    snapshots,           \* heap of Snapshot objects, indexed by Snapshot.ID
    activeSnapshots,     \* Manager.activeSnapshots (set of snapshot ids)
    nextSnapshotID,      \* Manager.nextSnapshotID
    generationMu,        \* Manager.generationMu is write-locked
    tpc,                 \* position of each reader thread
    tl,                  \* locals of each reader thread
    wpc,                 \* position of the thread calling UpdateGeneration
    wl,                  \* locals of UpdateGeneration
    ugRet,               \* last value returned by UpdateGeneration
    reclaimRet,          \* last value returned by Reclaimable
    panicked,            \* a panic was raised (Unpin / UpdateGeneration)
    nextSegId,           \* environment: next segment id never used before
    history,             \* history: per snapshot, what Acquire saw under
                         \* RLock and what the Release calls on it did
    leftPinned,          \* history: refs that left the manifest while pinned
    \* ---- index directory on disk ----
    manifestCurrent,     \* manifest.current: the active generation, 0 if missing
    manifestFiles,       \* manifests/manifest_gen_<N>.json, per generation
    segmentDirs,         \* segment ids with a directory under segments/
    corruptSegs,         \* segment ids with a file whose checksum mismatches
    tmpDir,              \* entries of tmp/
    \* ---- the process using the directory ----
    up,                  \* the process runs (recovery done, not crashed)
    mem,                 \* the caller's current manifest (nil = generation 0)
    cpc,                 \* position of Committer.Commit
    cl,                  \* locals of Committer.Commit
    commitRet,           \* last result of Committer.Commit
    recRet,              \* last result of Recover
    nextSeg,             \* environment: next unused random segment suffix
    faults,              \* environment: corruptions injected so far
    interrupted,         \* history: what the last crash interrupted: a commit, or
                         \* the time right after a Recover with no call since
    \* ---- server.IndexInstance ----
    writer,              \* IndexInstance.writer: a Writer, 0 if nil
    writers,             \* heap of indexing.Writer objects
    currentManifest,     \* IndexInstance.currentManifest (nil = generation 0)
    ipc,                 \* position of each request thread
    il,                  \* locals of IndexInstance.Commit, per thread
    ingested,            \* environment: number of documents ingested so far
    committedDocs,       \* history: documents of the segments that a
                         \* successful Committer.Commit installed
    searchRet,           \* hits of the last search
    \* ---- locks of snapshot.Manager and SegmentRef ----
    lprog,               \* per thread: the lock operations still to execute
    lheld,               \* per thread: the locks it holds, with their mode
    \* ---- storage: files, directories and what of them is durable ----
    dirCache,            \* path -> inode (0: no such file), as the process sees it
    dirDisk,             \* path -> inode, as recorded durably
    inodes,              \* inode -> content written and content durable
    aw,                  \* locals and position of the atomic write in progress
    awRet,               \* how the last atomic write ended
    nWrites,             \* environment: atomic writes started so far
    nCrashes,            \* environment: crashes so far
    \* ---- index: manifest bytes ----
    cdoc,                \* the manifest that was marshalled
    cdata,               \* the bytes of a manifest file
    ctampered,           \* position of the byte that was modified, 0 if none
    cret,                 \* result of the last UnmarshalManifest
    \* ---- engine: postings iterators ----
    it,                  \* the iterator under use
    idesc,               \* how it was built: its kind and its children
    emitted,             \* doc ids reported after the successful calls so far
    falses,              \* calls that returned false so far
    advanced,             \* Advance was called on it
    \* ---- engine: TopKCollector ----
    tk,                  \* the collector: k, h (the heap, h[1] is the root), minScore
    collected,           \* history: the (doc, score) pairs passed to Collect
    tkRet,               \* what the Results call returned, and after how many collects
    resultsCalls,         \* Results calls so far
    \* ---- automaton: LevenshteinAutomaton ----
    lev,                 \* the automaton: target, maxDist
    levState,            \* the state reached from Start by the bytes stepped
    levInput,             \* history: the bytes stepped so far
    \* ---- automaton: WildcardAutomaton, PrefixAutomaton ----
    wild,                \* the wildcard automaton: pattern, transitions, accepting, err
    wbuild,              \* subsetConstruct under way: setToID, queue
    wState,              \* the state reached from Start by the bytes stepped
    wMatched,            \* history: how many pattern bytes the bytes stepped can match
    pref,                \* the prefix automaton: prefix
    pState,              \* the state reached from Start by the bytes stepped
    pInput,              \* history: the bytes stepped so far
    driven,               \* the automaton an intersection drives
    \* ---- engine: ExecutionContext ----
    ctx,                 \* the context: limits, counters, checkCounter, flags
    pastDeadline,        \* time.Now() is after ctx.Deadline
    ckRet,               \* what the last CheckLimits call returned
    ckClock,             \* the last CheckLimits call read the clock
    okRun,                \* history: successive nil returns since the deadline passed
    \* ---- query: Rewrite ----
    original,            \* history: the query given to Rewrite
    qry,                   \* the query of the loop of Rewrite
    previous,            \* history: the query before the last pass
    passes,              \* history: the passes made
    returned,             \* Rewrite has returned q
    \* ---- indexing: Writer, WriteBuffer ----
    docWriter,           \* the Writer: schema, buffer, active
    addRet,              \* what the last AddDocument returned
    bufferBefore         \* history: the buffer when the last AddDocument was called

snapVars == <<currentGeneration, currentSegments, refs, snapshots,
              activeSnapshots, nextSnapshotID, generationMu, tpc, tl, wpc, wl,
              ugRet, reclaimRet, panicked, nextSegId, history, leftPinned>>

diskVars == <<manifestCurrent, manifestFiles, segmentDirs, corruptSegs,
              tmpDir, up, mem, cpc, cl, commitRet, recRet, nextSeg, faults,
              interrupted>>

docVars == <<ingested, committedDocs, searchRet>>

instVars == <<writer, writers, currentManifest, ipc, il, docVars>>

lockVars == <<lprog, lheld>>

\* the storage layer: atomic file writes
fsVars == <<dirCache, dirDisk, inodes, aw, awRet, nWrites, nCrashes>>

\* marshalling of manifests
codecVars == <<cdoc, cdata, ctampered, cret>>

\* postings iterators
iterVars == <<it, idesc, emitted, falses, advanced>>

\* the top-K collector
topkVars == <<tk, collected, tkRet, resultsCalls>>

\* the Levenshtein automaton and a run of it
levVars == <<lev, levState, levInput>>

\* the wildcard and prefix automata and a run of each
dfaVars == <<wild, wbuild, wState, wMatched, pref, pState, pInput, driven>>

\* the execution context of a query
ctxVars == <<ctx, pastDeadline, ckRet, ckClock, okRun>>

\* a call of Rewrite
rewriteVars == <<original, qry, previous, passes, returned>>

\* a Writer and its write buffer
writerVars == <<docWriter, addRet, bufferBefore>>

\* the subsystems whose operations run on their own
auxVars == <<fsVars, codecVars, iterVars, topkVars, levVars, dfaVars, ctxVars, rewriteVars, writerVars>>

\* the index directory, its committer and recovery, manager and server
coreVars == <<snapVars, diskVars, instVars, lockVars>>

vars == <<coreVars, auxVars>>

(***************************************************************************)
(* internal/snapshot: SegmentRef                                           *)
(***************************************************************************)
\* NewSegmentRef: refCount 0, inManifest false
NewSegmentRef(id) == [segmentID |-> id, refCount |-> 0, inManifest |-> FALSE]

\* SegmentRef.SetInManifest
SetInManifest(r, b) == [r EXCEPT !.inManifest = b]

PinNothing(r) == r

\* SegmentRef.Pin
Pin(r) == [r EXCEPT !.refCount = @ + 1]

UnpinNothing(r) == r

\* SegmentRef.Unpin (the panic on a negative result is raised by the caller)
Unpin(r) == [r EXCEPT !.refCount = @ - 1]

CanReclaimNoCount(r) == ~r.inManifest

\* SegmentRef.CanReclaim
CanReclaim(r) == r.refCount = 0 /\ ~r.inManifest

Range(f) == {f[x] : x \in DOMAIN f}

\* the segment ids behind a set of refs
SegmentIDs(rs) == {refs[r].segmentID : r \in rs}

IdleLocal == [gen |-> 0, segs |-> <<>>, snap |-> 0, toUnpin |-> <<>>,
              view |-> {}]
IdleWriter == [newGen |-> 0, newIds |-> {}, newRefs |-> <<>>, toMark |-> <<>>,
               reclaimable |-> {}]

\* NewManager(initialGeneration, segmentIDs): one ref per id, in the manifest
NewManagerRefs(n) == [i \in 1..n |-> SetInManifest(NewSegmentRef(i), TRUE)]

SnapInit ==
    /\ \E n \in 0..InitSegs :
         /\ currentGeneration = (IF n = 0 THEN 0 ELSE 1)
         /\ refs = NewManagerRefs(n)
         /\ currentSegments = [i \in 1..n |-> i]
         /\ nextSegId = n + 1
    /\ snapshots = <<>>
    /\ activeSnapshots = {}
    /\ nextSnapshotID = 0
    /\ generationMu = FALSE
    /\ tpc = [t \in Threads |-> "idle"]
    /\ tl = [t \in Threads |-> IdleLocal]
    /\ wpc = "idle"
    /\ wl = IdleWriter
    /\ ugRet = {}
    /\ reclaimRet = {}
    /\ panicked = FALSE
    /\ history = <<>>
    /\ leftPinned = {}

(***************************************************************************)
(* internal/snapshot: Manager.Acquire                                      *)
(***************************************************************************)
\* Go leaves the iteration order of a map open; the model walks a map in
\* ascending segment id order.
RECURSIVE MapOrder(_)
MapOrder(ids) ==
    IF ids = {} THEN <<>>
    ELSE LET i == CHOOSE x \in ids : \A y \in ids : x <= y
         IN <<i>> \o MapOrder(ids \ {i})

\* the refs of a list, as a set
RefSet(segments) == {segments[i] : i \in DOMAIN segments}

\* ref.Pin() on every ref there is
PinEveryRef(heap, segments) == [r \in DOMAIN heap |-> Pin(heap[r])]

\* ref.Pin() on every ref of the list
PinAll(heap, segments) ==
    [r \in DOMAIN heap |-> IF r \in RefSet(segments) THEN Pin(heap[r])
                           ELSE heap[r]]

\* generationMu.RLock(); generation := m.currentGeneration;
\* if generation != 0 { pin and collect every current ref }; RUnlock()
\* (the read lock excludes UpdateGeneration for the whole section)
AcquireRLock(t) ==
    /\ ~panicked /\ UNCHANGED <<diskVars, instVars, lockVars, auxVars>>
    /\ tpc[t] = "idle"
    /\ ~generationMu
    /\ nextSnapshotID + Cardinality({u \in Threads : tpc[u] = "register"})
          < MaxSnapshots
    /\ LET segments == IF currentGeneration # 0
                       THEN [i \in DOMAIN MapOrder(DOMAIN currentSegments) |->
                               currentSegments[MapOrder(DOMAIN currentSegments)[i]]]
                       ELSE <<>>
       IN /\ refs' = PinAll(refs, segments)
          /\ tl' = [tl EXCEPT ![t] =
                      [IdleLocal EXCEPT
                         !.gen = currentGeneration,
                         !.segs = segments,
                         !.view = IF currentGeneration # 0
                                  THEN DOMAIN currentSegments ELSE {}]]
    /\ tpc' = [tpc EXCEPT ![t] = "register"]
    /\ UNCHANGED <<currentGeneration, currentSegments, snapshots,
                   activeSnapshots, nextSnapshotID, generationMu, wpc, wl,
                   ugRet, reclaimRet, panicked, nextSegId, history,
                   leftPinned>>

AcquireGenerationLate(t) == currentGeneration

\* the generation stored in the new Snapshot: the local read under RLock
AcquireGeneration(t) == tl[t].gen

\* snap := &Snapshot{ID: nextSnapshotID.Add(1), Generation: generation, ...};
\* snapshotsMu.Lock(); activeSnapshots[snap.ID] = snap; Unlock(); return snap
AcquireRegister(t) ==
    /\ ~panicked /\ UNCHANGED <<diskVars, instVars, lockVars, auxVars>>
    /\ tpc[t] = "register"
    /\ nextSnapshotID' = nextSnapshotID + 1
    /\ snapshots' = Append(snapshots,
                       [ID |-> nextSnapshotID + 1,
                        Generation |-> AcquireGeneration(t),
                        Segments |-> tl[t].segs,
                        released |-> FALSE])
    /\ history' = Append(history, [gen |-> tl[t].gen, ids |-> tl[t].view,
                                   unpinned |-> <<>>, removed |-> 0,
                                   again |-> FALSE])
    /\ activeSnapshots' = activeSnapshots \cup {nextSnapshotID + 1}
    /\ tl' = [tl EXCEPT ![t] = IdleLocal]
    /\ tpc' = [tpc EXCEPT ![t] = "idle"]
    /\ UNCHANGED <<currentGeneration, currentSegments, refs, generationMu,
                   wpc, wl, ugRet, reclaimRet, panicked, nextSegId, leftPinned>>

(***************************************************************************)
(* internal/snapshot: Snapshot.Release                                     *)
(***************************************************************************)
NeverReleased(s) == FALSE

\* s.released.CompareAndSwap(false, true) fails: the flag is already set
AlreadyReleased(s) == snapshots[s].released

\* if !s.released.CompareAndSwap(false, true) { return nil }
ReleaseCAS(t, s) ==
    /\ ~panicked /\ UNCHANGED <<diskVars, instVars, lockVars, auxVars>>
    /\ tpc[t] = "idle"
    /\ IF AlreadyReleased(s)
       THEN /\ history' = [history EXCEPT ![s].again = TRUE]
            /\ UNCHANGED <<snapshots, tl, tpc>>
       ELSE /\ snapshots' = [snapshots EXCEPT ![s].released = TRUE]
            /\ UNCHANGED history
            /\ tl' = [tl EXCEPT ![t] =
                        [IdleLocal EXCEPT !.snap = s,
                                          !.toUnpin = snapshots[s].Segments]]
            /\ tpc' = [tpc EXCEPT ![t] = "unpin"]
    /\ UNCHANGED <<currentGeneration, currentSegments, refs, activeSnapshots,
                   nextSnapshotID, generationMu, wpc, wl, ugRet, reclaimRet,
                   panicked, nextSegId, leftPinned>>

\* for _, ref := range s.Segments { ref.Unpin() }: one ref per step
ReleaseUnpin(t) ==
    /\ ~panicked /\ UNCHANGED <<diskVars, instVars, lockVars, auxVars>>
    /\ tpc[t] = "unpin"
    /\ tl[t].toUnpin # <<>>
    /\ LET r == Head(tl[t].toUnpin) IN
         /\ refs' = [refs EXCEPT ![r] = Unpin(@)]
         /\ panicked' = (panicked \/ refs'[r].refCount < 0)
         /\ history' = [history EXCEPT ![tl[t].snap].unpinned = Append(@, r)]
    /\ tl' = [tl EXCEPT ![t].toUnpin = Tail(@)]
    /\ UNCHANGED <<currentGeneration, currentSegments, snapshots,
                   activeSnapshots, nextSnapshotID, generationMu, tpc, wpc, wl,
                   ugRet, reclaimRet, nextSegId, leftPinned>>

\* s.manager.releaseSnapshot(s): delete(m.activeSnapshots, snap.ID)
ReleaseNotify(t) ==
    /\ ~panicked /\ UNCHANGED <<diskVars, instVars, lockVars, auxVars>>
    /\ tpc[t] = "unpin"
    /\ tl[t].toUnpin = <<>>
    /\ activeSnapshots' = activeSnapshots \ {tl[t].snap}
    /\ history' = [history EXCEPT ![tl[t].snap].removed =
                      IF tl[t].snap \in activeSnapshots THEN @ + 1 ELSE @]
    /\ tl' = [tl EXCEPT ![t] = IdleLocal]
    /\ tpc' = [tpc EXCEPT ![t] = "idle"]
    /\ UNCHANGED <<currentGeneration, currentSegments, refs, snapshots,
                   nextSnapshotID, generationMu, wpc, wl, ugRet, reclaimRet,
                   panicked, nextSegId, leftPinned>>

(***************************************************************************)
(* internal/snapshot: Manager.UpdateGeneration                             *)
(***************************************************************************)
CarriedNone(newIds) == {}

\* existing, ok := m.currentSegments[id]: the ids carried forward
CarriedIds(newIds) == newIds \cap DOMAIN currentSegments

\* the ref map built for newSegmentIDs: carried refs keep their identity,
\* new ids get a ref appended to the heap
NewRefsHeap(newIds) ==
    LET fresh == newIds \ CarriedIds(newIds)
        RECURSIVE Alloc(_, _)
        Alloc(h, ids) ==
            IF ids = {} THEN h
            ELSE LET i == CHOOSE x \in ids : \A y \in ids : x <= y
                 IN Alloc(Append(h, SetInManifest(NewSegmentRef(i), TRUE)),
                          ids \ {i})
    IN Alloc(refs, fresh)

NewRefsMap(newIds, heap) ==
    [id \in newIds |->
        IF id \in CarriedIds(newIds) THEN currentSegments[id]
        ELSE CHOOSE r \in DOMAIN heap :
                r > Len(refs) /\ heap[r].segmentID = id]

\* the segment sets a caller passes: segments kept from the current manifest
\* plus segments with ids never used before (seg_gen_<N>_<random>)
NewSegmentSets ==
    {keep \cup (nextSegId..(nextSegId + k - 1)) :
        keep \in SUBSET (DOMAIN currentSegments),
        k \in 0..(MaxSegs + 1 - nextSegId)}

\* the generation a caller passes
NewGenerations == 0..MaxGen

GenerationUnchecked(newGen) == TRUE

\* the check of UpdateGeneration: newGeneration > m.currentGeneration
GenerationOK(newGen) == newGen > currentGeneration

\* generationMu.Lock(); panic if newGeneration <= currentGeneration
UpdateGenerationPanic(newGen) ==
    /\ ~panicked /\ UNCHANGED <<diskVars, instVars, lockVars, auxVars>>
    /\ wpc = "idle"
    /\ ~generationMu
    /\ ~GenerationOK(newGen)
    /\ panicked' = TRUE
    /\ UNCHANGED <<currentGeneration, currentSegments, refs, snapshots,
                   activeSnapshots, nextSnapshotID, generationMu, tpc, tl, wpc,
                   wl, ugRet, reclaimRet, nextSegId, history, leftPinned>>

\* generationMu.Lock(); build newRefs and newSet
UpdateGenerationLock(newGen, newIds) ==
    /\ ~panicked /\ UNCHANGED <<diskVars, instVars, lockVars, auxVars>>
    /\ wpc = "idle"
    /\ ~generationMu
    /\ GenerationOK(newGen)
    /\ generationMu' = TRUE
    /\ LET heap == NewRefsHeap(newIds) IN
         /\ refs' = heap
         /\ wl' = [newGen |-> newGen, newIds |-> newIds,
                   newRefs |-> NewRefsMap(newIds, heap),
                   toMark |-> MapOrder((DOMAIN currentSegments) \ newIds),
                   reclaimable |-> {}]
    /\ nextSegId' = IF newIds \ (1..(nextSegId - 1)) = {} THEN nextSegId
                    ELSE 1 + CHOOSE x \in newIds : \A y \in newIds : y <= x
    /\ wpc' = "mark"
    /\ UNCHANGED <<currentGeneration, currentSegments, snapshots,
                   activeSnapshots, nextSnapshotID, tpc, tl, ugRet, reclaimRet,
                   panicked, history, leftPinned>>

\* if !newSet[id] { ref.SetInManifest(false); if ref.CanReclaim() { append } }
UpdateGenerationMark ==
    /\ ~panicked /\ UNCHANGED <<diskVars, instVars, lockVars, auxVars>>
    /\ wpc = "mark"
    /\ wl.toMark # <<>>
    /\ LET id == Head(wl.toMark)
           r == currentSegments[id]
           marked == SetInManifest(refs[r], FALSE)
       IN /\ refs' = [refs EXCEPT ![r] = marked]
          /\ wl' = [wl EXCEPT
                      !.toMark = Tail(@),
                      !.reclaimable = IF CanReclaim(marked)
                                      THEN @ \cup {id} ELSE @]
          /\ leftPinned' = IF marked.refCount > 0
                           THEN leftPinned \cup {r} ELSE leftPinned
    /\ UNCHANGED <<currentGeneration, currentSegments, snapshots,
                   activeSnapshots, nextSnapshotID, generationMu, tpc, tl, wpc,
                   ugRet, reclaimRet, panicked, nextSegId, history>>

\* m.currentGeneration = newGeneration; m.currentSegments = newRefs; Unlock
UpdateGenerationSwap ==
    /\ ~panicked /\ UNCHANGED <<diskVars, instVars, lockVars, auxVars>>
    /\ wpc = "mark"
    /\ wl.toMark = <<>>
    /\ currentGeneration' = wl.newGen
    /\ currentSegments' = wl.newRefs
    /\ generationMu' = FALSE
    /\ ugRet' = wl.reclaimable
    /\ wl' = IdleWriter
    /\ wpc' = "idle"
    /\ UNCHANGED <<refs, snapshots, activeSnapshots, nextSnapshotID, tpc, tl,
                   reclaimRet, panicked, nextSegId, history, leftPinned>>

(***************************************************************************)
(* internal/snapshot: Manager.Reclaimable                                  *)
(***************************************************************************)
\* the scan of m.currentSegments
ReclaimableScan ==
    {id \in DOMAIN currentSegments : CanReclaim(refs[currentSegments[id]])}

\* generationMu.RLock(); scan; RUnlock
Reclaimable(t) ==
    /\ ~panicked /\ UNCHANGED <<diskVars, instVars, lockVars, auxVars>>
    /\ tpc[t] = "idle"
    /\ ~generationMu
    /\ reclaimRet' = ReclaimableScan
    /\ UNCHANGED <<currentGeneration, currentSegments, refs, snapshots,
                   activeSnapshots, nextSnapshotID, generationMu, tpc, tl, wpc,
                   wl, ugRet, panicked, nextSegId, history, leftPinned>>

(***************************************************************************)
(* internal/index: manifest files and manifest.current                     *)
(***************************************************************************)
\* a manifest file: absent, unreadable (checksum mismatch) or a manifest
AbsentFile == [st |-> "absent", generation |-> 0, previous |-> 0, segs |-> {}]
CorruptFile == [st |-> "corrupt", generation |-> 0, previous |-> 0, segs |-> {}]
ManifestFile(m) == [st |-> "ok", generation |-> m.generation,
                    previous |-> m.previous, segs |-> m.segs]

\* index.EmptyManifest: the generation-0 sentinel used for a nil manifest
EmptyManifest == [generation |-> 0, previous |-> 0, segs |-> {}]

\* index.LoadManifest succeeds: the file exists and its checksum verifies
LoadsAlways(files, g) == files[g].st # "absent"

LoadManifestOK(files, g) == files[g].st = "ok"

\* the manifest LoadManifest returns
LoadManifest(files, g) ==
    [generation |-> files[g].generation, previous |-> files[g].previous,
     segs |-> files[g].segs]

IdleCommit == [prev |-> EmptyManifest, newGeneration |-> 0, segmentID |-> 0,
               before |-> 0]
NoResult == [status |-> "none", generation |-> 0, cancelled |-> "no"]
NoRecovery == [status |-> "none", generation |-> 0, segs |-> {},
               fellBack |-> FALSE, fellBackFrom |-> 0, retention |-> 0,
               verify |-> FALSE]
\* the last crash interrupted no commit and followed no Recover
NoCommit == [commit |-> FALSE, generation |-> 0, intact |-> FALSE,
             recovered |-> NoRecovery]

\* a new index: empty directories, no manifest.current, recovery done
DiskInit ==
    /\ manifestCurrent = 0
    /\ manifestFiles = [g \in DiskGens |-> AbsentFile]
    /\ segmentDirs = {}
    /\ corruptSegs = {}
    /\ tmpDir = {}
    /\ up = TRUE
    /\ mem = EmptyManifest
    /\ cpc = "idle"
    /\ cl = IdleCommit
    /\ commitRet = NoResult
    /\ recRet = NoRecovery
    /\ nextSeg = 1
    /\ faults = 0
    /\ interrupted = NoCommit

\* the part of the model a specification leaves idle
SnapIdle ==
    /\ currentGeneration = 0
    /\ currentSegments = <<>>
    /\ refs = <<>>
    /\ snapshots = <<>>
    /\ activeSnapshots = {}
    /\ nextSnapshotID = 0
    /\ generationMu = FALSE
    /\ tpc = [t \in Threads |-> "idle"]
    /\ tl = [t \in Threads |-> IdleLocal]
    /\ wpc = "idle"
    /\ wl = IdleWriter
    /\ ugRet = {}
    /\ reclaimRet = {}
    /\ panicked = FALSE
    /\ nextSegId = 1
    /\ history = <<>>
    /\ leftPinned = {}

\* locals of IndexInstance.Commit: w, currentManifest, result, newManifest;
\* segData (the documents of the buffer it serialised);
\* acquire: what the thread's last AcquireWriter call returned
IdleInst == [w |-> 0, cur |-> EmptyManifest, result |-> 0,
             newManifest |-> EmptyManifest, acquire |-> "none",
             segData |-> {}]

\* no thread is inside a locking operation
LockInit ==
    /\ lprog = [t \in Threads |-> <<>>]
    /\ lheld = [t \in Threads |-> {}]

\* openIndex on a new index: no writer, nil manifest
InstInit ==
    /\ writer = 0
    /\ writers = <<>>
    /\ currentManifest = EmptyManifest
    /\ ipc = [t \in Threads |-> "idle"]
    /\ il = [t \in Threads |-> IdleInst]
    /\ ingested = 0
    /\ committedDocs = {}
    /\ searchRet = {}

(***************************************************************************)
(* internal/storage: files and directories                                 *)
(***************************************************************************)
\* the three writers that replace a file through a temporary file
WriteKinds == {"AtomicWriteFile", "WriteManifest", "WriteCurrentGeneration"}

\* the path each of them replaces
FinalPath(kind) ==
    CASE kind = "WriteManifest" -> "manifests/manifest_gen_N.json"
      [] kind = "WriteCurrentGeneration" -> "manifest.current"
      [] OTHER -> "finalPath"

\* the temporary file each of them writes first
TmpPath(kind) ==
    CASE kind = "WriteManifest" -> "tmp/manifest_gen_N.json"
      [] kind = "WriteCurrentGeneration" -> "tmp/manifest.next"
      [] OTHER -> "tmp/atomic-*"

Paths == {FinalPath(k) : k \in WriteKinds} \cup {TmpPath(k) : k \in WriteKinds}

\* inodes are numbered by the write that created them
InodeIds == 1..MaxWrites

\* an inode holds the first len bytes of the data of write ver; of these,
\* the first dlen bytes of the data of write dver are durable
NoInode == [ver |-> 0, len |-> 0, dver |-> 0, dlen |-> 0]

\* no atomic write in progress
IdleWrite == [kind |-> "none", pc |-> "idle", ino |-> 0, ver |-> 0,
              before |-> [ver |-> 0, len |-> 0]]

\* an empty directory tree, nothing written
FsInit ==
    /\ dirCache = [p \in Paths |-> 0]
    /\ dirDisk = [p \in Paths |-> 0]
    /\ inodes = [i \in InodeIds |-> NoInode]
    /\ aw = IdleWrite
    /\ awRet = [status |-> "none", kind |-> "none", pc |-> "idle"]
    /\ nWrites = 0
    /\ nCrashes = 0

(***************************************************************************)
(* internal/index: MarshalManifest, UnmarshalManifest                      *)
(***************************************************************************)
\* nothing marshalled yet
CodecInit ==
    /\ cdoc = 0
    /\ cdata = <<>>
    /\ ctampered = 0
    /\ cret = [status |-> "none", generation |-> 0]

(***************************************************************************)
(* internal/engine: PostingsIterator                                       *)
(***************************************************************************)
DocIds == 1..MaxDoc

\* the ascending sequence of a set of doc ids
RECURSIVE Ascending(_)
Ascending(S) ==
    IF S = {} THEN <<>>
    ELSE LET m == CHOOSE x \in S : \A y \in S : x <= y
         IN <<m>> \o Ascending(S \ {m})

\* an iterator object: a slice iterator uses docIDs and pos, a conjunction
\* children (children[1] is the lead) and current, a disjunction children
\* (its heap h) and current
Iterator(type, docIDs, children) ==
    [type |-> type, docIDs |-> docIDs, pos |-> -1, children |-> children,
     current |-> 0]

RECURSIVE ItNext(_)
RECURSIVE ItAdvance(_, _)
RECURSIVE ItDocID(_)
RECURSIVE ItCost(_)
RECURSIVE DisjDrain(_, _)
RECURSIVE DisjSkip(_, _)
RECURSIVE AlignFrom(_, _, _)
RECURSIVE SumCost(_)

\* NewSlicePostingsIterator(docIDs, nil)
NewSlicePostingsIterator(docIDs) == Iterator("slice", docIDs, <<>>)

\* SlicePostingsIterator.Next
SliceNext(s) ==
    [ok |-> s.pos + 1 < Len(s.docIDs), it |-> [s EXCEPT !.pos = s.pos + 1]]

\* SlicePostingsIterator.Advance: stay if already at or past target, else
\* move to the first later position at or past target
SliceAdvance(s, target) ==
    IF s.pos >= 0 /\ s.pos < Len(s.docIDs) /\ s.docIDs[s.pos + 1] >= target
    THEN [ok |-> TRUE, it |-> s]
    ELSE LET later == {p \in (s.pos + 1)..(Len(s.docIDs) - 1) :
                          s.docIDs[p + 1] >= target}
         IN IF later = {}
            THEN [ok |-> FALSE, it |-> [s EXCEPT !.pos = Len(s.docIDs)]]
            ELSE [ok |-> TRUE,
                  it |-> [s EXCEPT !.pos = CHOOSE p \in later :
                                             \A q \in later : p <= q]]

\* SlicePostingsIterator.Cost
SliceCost(s) ==
    IF Len(s.docIDs) - s.pos - 1 < 0 THEN 0 ELSE Len(s.docIDs) - s.pos - 1

\* h[0] of an iterHeap: an entry of least DocID
Top(h) ==
    CHOOSE i \in DOMAIN h : \A j \in DOMAIN h : ItDocID(h[i]) <= ItDocID(h[j])

\* heap.Pop after the top was moved to the end: the heap without that entry
HeapPop(h, i) == [k \in 1..(Len(h) - 1) |-> IF k < i THEN h[k] ELSE h[k + 1]]

\* NewDisjunctionIterator: the heap holds the children whose first Next
\* succeeded
NewDisjunctionIterator(children) ==
    LET r == [i \in DOMAIN children |-> ItNext(children[i])]
        live == SelectSeq([i \in DOMAIN children |-> i], LAMBDA i : r[i].ok)
    IN Iterator("disj", <<>>, [k \in DOMAIN live |-> r[live[k]].it])

\* a drain that moves no entry
DrainNothing(h, cur) == h

\* the loop of DisjunctionIterator.Next: Next on every entry at the current
\* doc id, dropping the exhausted ones
DisjDrain(h, cur) ==
    IF h = <<>> THEN h
    ELSE LET t == Top(h)
         IN IF ItDocID(h[t]) # cur THEN h
            ELSE LET r == ItNext(h[t])
                 IN DisjDrain(IF r.ok THEN [h EXCEPT ![t] = r.it]
                              ELSE HeapPop(h, t), cur)

\* DisjunctionIterator.Next
DisjNext(d) ==
    IF d.children = <<>> THEN [ok |-> FALSE, it |-> d]
    ELSE LET cur == ItDocID(d.children[Top(d.children)])
         IN [ok |-> TRUE,
             it |-> [d EXCEPT !.current = cur,
                              !.children = DisjDrain(d.children, cur)]]

\* the loop of DisjunctionIterator.Advance: Advance on every entry below
\* target
DisjSkip(h, target) ==
    IF h = <<>> THEN h
    ELSE LET t == Top(h)
         IN IF ItDocID(h[t]) >= target THEN h
            ELSE LET r == ItAdvance(h[t], target)
                 IN DisjSkip(IF r.ok THEN [h EXCEPT ![t] = r.it]
                             ELSE HeapPop(h, t), target)

\* DisjunctionIterator.Advance: the entry it lands on stays in the heap
DisjAdvance(d, target) ==
    LET h == DisjSkip(d.children, target)
    IN IF h = <<>> THEN [ok |-> FALSE, it |-> [d EXCEPT !.children = h]]
       ELSE [ok |-> TRUE,
             it |-> [d EXCEPT !.children = h,
                              !.current = ItDocID(h[Top(h)])]]

\* DisjunctionIterator.Cost
SumCost(h) == IF h = <<>> THEN 0 ELSE ItCost(Head(h)) + SumCost(Tail(h))

\* NewConjunctionIterator: children sorted by ascending cost (insertion
\* sort, which keeps the order of equal costs); the first is the lead
NewConjunctionIterator(children) ==
    LET n == Len(children)
        rank(i) == 1 + Cardinality({j \in 1..n :
                        \/ ItCost(children[j]) < ItCost(children[i])
                        \/ ItCost(children[j]) = ItCost(children[i]) /\ j < i})
    IN Iterator("conj", <<>>,
                [k \in 1..n |-> children[CHOOSE i \in 1..n : rank(i) = k]])

\* ConjunctionIterator.align, from child i on: Advance each child to target;
\* a child that lands past it moves the lead there and restarts the round
AlignFrom(c, target, i) ==
    IF i > Len(c.children) THEN [ok |-> TRUE, it |-> [c EXCEPT !.current = target]]
    ELSE LET r == ItAdvance(c.children[i], target)
             c1 == [c EXCEPT !.children[i] = r.it]
         IN IF ~r.ok THEN [ok |-> FALSE, it |-> c1]
            ELSE IF ItDocID(r.it) > target
            THEN LET l == ItAdvance(c1.children[1], ItDocID(r.it))
                     c2 == [c1 EXCEPT !.children[1] = l.it]
                 IN IF ~l.ok THEN [ok |-> FALSE, it |-> c2]
                    ELSE AlignFrom(c2, ItDocID(l.it), 2)
            ELSE AlignFrom(c1, target, i + 1)

\* ConjunctionIterator.Next
ConjNext(c) ==
    LET l == ItNext(c.children[1])
        c1 == [c EXCEPT !.children[1] = l.it]
    IN IF ~l.ok THEN [ok |-> FALSE, it |-> c1]
       ELSE AlignFrom(c1, ItDocID(l.it), 2)

\* ConjunctionIterator.Advance
ConjAdvance(c, target) ==
    LET l == ItAdvance(c.children[1], target)
        c1 == [c EXCEPT !.children[1] = l.it]
    IN IF ~l.ok THEN [ok |-> FALSE, it |-> c1]
       ELSE AlignFrom(c1, ItDocID(l.it), 2)

\* PostingsIterator.Next
ItNext(i) ==
    CASE i.type = "slice" -> SliceNext(i)
      [] i.type = "disj" -> DisjNext(i)
      [] OTHER -> ConjNext(i)

\* PostingsIterator.Advance
ItAdvance(i, target) ==
    CASE i.type = "slice" -> SliceAdvance(i, target)
      [] i.type = "disj" -> DisjAdvance(i, target)
      [] OTHER -> ConjAdvance(i, target)

\* PostingsIterator.DocID
ItDocID(i) == IF i.type = "slice" THEN i.docIDs[i.pos + 1] ELSE i.current

\* PostingsIterator.Cost
ItCost(i) ==
    CASE i.type = "slice" -> SliceCost(i)
      [] i.type = "disj" -> SumCost(i.children)
      [] OTHER -> ItCost(i.children[1])

\* how an iterator is put together: a slice of doc ids, or a conjunction
\* or disjunction of parts
Desc(type, docs, kids) == [type |-> type, docs |-> docs, kids |-> kids]

SliceDescs == {Desc("slice", S, <<>>) : S \in SUBSET DocIds}

\* a conjunction or a disjunction of two slices
NestedDescs ==
    {Desc(ty, {}, <<a, b>>) : ty \in {"conj", "disj"}, a \in SliceDescs,
                              b \in SliceDescs}

\* the children lists used: two or three slices, or a slice next to a
\* nested iterator, in either order
ChildLists ==
    {<<a, b>> : a \in SliceDescs, b \in SliceDescs \cup NestedDescs}
      \cup {<<a, b>> : a \in NestedDescs, b \in SliceDescs}
      \cup {<<a, b, c>> : a \in SliceDescs, b \in SliceDescs, c \in SliceDescs}

\* the iterators that are used
Descs ==
    SliceDescs \cup
    {Desc(ty, {}, kids) : ty \in {"conj", "disj"}, kids \in ChildLists}

\* the doc-id set of an iterator
RECURSIVE DocSet(_)
DocSet(d) ==
    CASE d.type = "slice" -> d.docs
      [] d.type = "disj" -> UNION {DocSet(d.kids[i]) : i \in DOMAIN d.kids}
      [] OTHER -> {x \in DocIds : \A i \in DOMAIN d.kids : x \in DocSet(d.kids[i])}

\* the constructor calls that build an iterator
RECURSIVE Build(_)
Build(d) ==
    CASE d.type = "slice" -> NewSlicePostingsIterator(Ascending(d.docs))
      [] d.type = "disj" ->
           NewDisjunctionIterator([i \in DOMAIN d.kids |-> Build(d.kids[i])])
      [] OTHER ->
           NewConjunctionIterator([i \in DOMAIN d.kids |-> Build(d.kids[i])])

\* a new iterator, no call made yet
IterInit ==
    /\ idesc \in Descs
    /\ it = Build(idesc)
    /\ emitted = <<>>
    /\ falses = 0
    /\ advanced = FALSE

\* an iterator that is not used
IterIdle ==
    /\ idesc = Desc("slice", {}, <<>>)
    /\ it = Build(idesc)
    /\ emitted = <<>>
    /\ falses = 0
    /\ advanced = FALSE

(***************************************************************************)
(* internal/engine: TopKCollector                                          *)
(***************************************************************************)
\* NewTopKCollector(k): empty heap, minScore 0
NewTopKCollector(k) == [k |-> k, h |-> <<>>, minScore |-> 0]

\* a collector for the top k documents, nothing collected
TopKInit ==
    /\ tk \in {NewTopKCollector(k) : k \in 1..MaxK}
    /\ collected = <<>>
    /\ tkRet = [n |-> 0, docs |-> <<>>]
    /\ resultsCalls = 0

\* a collector that is not used
TopKIdle ==
    /\ tk = NewTopKCollector(1)
    /\ collected = <<>>
    /\ tkRet = [n |-> 0, docs |-> <<>>]
    /\ resultsCalls = 0

(***************************************************************************)
(* internal/automaton: LevenshteinAutomaton                                *)
(***************************************************************************)
\* const DeadState State = 0
DeadState == 0

\* const MaxEditDistance = 2
MaxEditDistance == 2

\* the bytes of targets and inputs
LevBytes == {"a", "b"}

\* the byte strings of at most n bytes
BytesUpTo(n) == UNION {[1..m -> LevBytes] : m \in 0..n}

\* encodeState(pos, editsUsed)
EncodeState(a, pos, editsUsed) ==
    IF editsUsed > a.maxDist THEN DeadState
    ELSE IF pos > Len(a.target) + a.maxDist THEN DeadState
    ELSE pos * (a.maxDist + 1) + editsUsed + 1

\* decodeState(state)
DecodeState(a, state) ==
    [pos |-> (state - 1) \div (a.maxDist + 1),
     editsUsed |-> (state - 1) % (a.maxDist + 1)]

\* NewLevenshteinAutomaton(target, maxDist), for 0 <= maxDist <= 2
NewLevenshteinAutomaton(target, maxDist) ==
    [target |-> target, maxDist |-> maxDist]

\* Start()
Start(a) == EncodeState(a, 0, 0)

\* an automaton for a target and a distance, in its start state
LevInit ==
    /\ lev \in {NewLevenshteinAutomaton(t, d) :
                  t \in BytesUpTo(MaxTargetLen), d \in 0..MaxEditDistance}
    /\ levState = Start(lev)
    /\ levInput = <<>>

\* an automaton that is not used
LevIdle ==
    /\ lev = NewLevenshteinAutomaton(<<>>, 0)
    /\ levState = Start(lev)
    /\ levInput = <<>>

(***************************************************************************)
(* internal/automaton: WildcardAutomaton, PrefixAutomaton                  *)
(***************************************************************************)
\* NewPrefixAutomaton(prefix)
NewPrefixAutomaton(prefix) == [prefix |-> prefix]

\* no automaton built
NoWildcard ==
    [pattern |-> <<>>, transitions |-> <<>>, accepting |-> <<>>, err |-> "none"]

\* no construction under way
NoConstruction == [setToID |-> {}, queue |-> <<>>]

\* a wildcard automaton that is not used
WildIdle ==
    /\ wild = NoWildcard /\ wbuild = NoConstruction
    /\ wState = DeadState /\ wMatched = {}

\* a prefix automaton that is not used
PrefixIdle ==
    pref = NewPrefixAutomaton(<<>>) /\ pState = DeadState /\ pInput = <<>>

\* automata that are not used
DfaIdle == WildIdle /\ PrefixIdle /\ driven = "none"

(***************************************************************************)
(* internal/engine: ExecutionContext                                       *)
(***************************************************************************)
\* interval := 128
CheckInterval == 128

\* NewExecutionContext(timeout, maxStates, maxTerms)
NewExecutionContext(maxStates, maxTerms) ==
    [MaxStatesVisited |-> maxStates, MaxTermsMatched |-> maxTerms,
     StatesVisited |-> 0, TermsMatched |-> 0,
     checkCounter |-> 0, checkInterval |-> CheckInterval,
     TimedOut |-> FALSE, LimitExceeded |-> FALSE]

\* a new context, its deadline ahead
CtxInit ==
    /\ ctx = NewExecutionContext(MaxStatesVisited, MaxTermsMatched)
    /\ pastDeadline = FALSE
    /\ ckRet = "none"
    /\ ckClock = FALSE
    /\ okRun = 0

(***************************************************************************)
(* internal/query: the query AST                                           *)
(***************************************************************************)
\* &MatchAllQuery{}
MatchAllQuery == [type |-> "MatchAll"]

\* &MatchNoneQuery{}
MatchNoneQuery == [type |-> "MatchNone"]

\* &TermQuery{Term: t}
TermQuery(t) == [type |-> "Term", term |-> t]

\* &BooleanQuery{Clauses: clauses, MinimumShouldMatch: msm}
BooleanQuery(clauses, msm) ==
    [type |-> "Boolean", clauses |-> clauses, msm |-> msm]

\* BooleanClause{Occur: occur, Query: query}
BooleanClause(occur, query) == [occur |-> occur, query |-> query]

\* no call of Rewrite
RewriteIdle ==
    /\ original = MatchAllQuery /\ qry = MatchAllQuery /\ previous = MatchAllQuery
    /\ passes = 0 /\ returned = FALSE

(***************************************************************************)
(* internal/indexing: WriteBuffer, Writer                                  *)
(***************************************************************************)
\* NewWriteBuffer(): InvertedIndex maps <<field, term>> to the entries of
\* the postings list, StoredFields maps <<docID, field>> to the value
NewWriteBuffer ==
    [InvertedIndex |-> <<>>, StoredFields |-> <<>>, ExternalToInternal |-> <<>>,
     Deletions |-> {}, NextDocID |-> 0, DocCount |-> 0, TermCount |-> 0,
     memoryUsed |-> 0]

\* NewWriter(schema, registry)
NewDocWriter(schema) ==
    [schema |-> schema, buffer |-> NewWriteBuffer, active |-> TRUE]

\* no writer in use
WriterIdle ==
    /\ docWriter = NewDocWriter(<<>>)
    /\ addRet = "none"
    /\ bufferBefore = NewWriteBuffer

AuxInit == FsInit /\ CodecInit /\ IterIdle /\ TopKIdle /\ LevIdle /\ DfaIdle /\ CtxInit /\ RewriteIdle /\ WriterIdle

(***************************************************************************)
(* internal/commit: Committer.Commit                                       *)
(***************************************************************************)
\* what a step leaves alone
CommitFrame == UNCHANGED <<up, mem, recRet, faults, interrupted, snapVars, instVars, lockVars, auxVars>>

\* return nil, err
CommitError ==
    /\ cpc' = "idle"
    /\ cl' = IdleCommit
    /\ commitRet' = [status |-> "error", generation |-> 0, cancelled |-> "no"]

\* return nil, fmt.Errorf("commit cancelled before phase N: %w", err)
CommitCancelled(phase) ==
    /\ cpc' = "idle"
    /\ cl' = IdleCommit
    /\ commitRet' = [status |-> "error", generation |-> 0, cancelled |-> phase]

\* a rollback that removes nothing
RollbackNothing(tmp, segmentID) == tmp

\* c.rollback(segmentID): os.RemoveAll(tmp/<segmentID>)
Rollback(tmp, segmentID) == tmp \ {<<"seg", segmentID>>}

\* Commit entry: nil manifest becomes EmptyManifest; newGeneration = prev + 1
\* (the history of the last crash ends with the first call after it)
CommitCall ==
    /\ up /\ cpc = "idle"
    /\ mem.generation + 1 <= MaxDiskGen
    /\ nextSeg <= MaxDiskSegs
    /\ cl' = [prev |-> mem, newGeneration |-> mem.generation + 1,
              segmentID |-> 0, before |-> manifestCurrent]
    /\ cpc' = "p1"
    /\ commitRet' = NoResult
    /\ interrupted' = NoCommit
    /\ UNCHANGED <<manifestCurrent, manifestFiles, segmentDirs, corruptSegs,
                   tmpDir, nextSeg, up, mem, recRet, faults, snapVars,
                   instVars, lockVars, auxVars>>

\* phase 1: generate the segment id (random suffix) and the commit id
Phase1Prepare(ok) ==
    /\ up /\ cpc = "p1"
    /\ IF ok
       THEN /\ cl' = [cl EXCEPT !.segmentID = nextSeg]
            /\ nextSeg' = nextSeg + 1
            /\ cpc' = "p2"
            /\ UNCHANGED commitRet
       ELSE /\ CommitError
            /\ UNCHANGED nextSeg
    /\ UNCHANGED <<manifestCurrent, manifestFiles, segmentDirs, corruptSegs,
                   tmpDir>>
    /\ CommitFrame

\* ctx.Err() before phase 2 (no rollback); phase 2: create tmp/<segmentID>,
\* write and fsync every file, fsync the directory; rollback on failure
Phase2Write(outcome) ==
    /\ up /\ cpc = "p2"
    /\ CASE outcome = "ok" ->
              /\ tmpDir' = tmpDir \cup {<<"seg", cl.segmentID>>}
              /\ cpc' = "p3"
              /\ UNCHANGED <<cl, commitRet>>
         [] outcome = "cancelled" ->
              /\ UNCHANGED tmpDir
              /\ CommitCancelled("phase 2")
         [] OTHER ->
              /\ tmpDir' = Rollback(tmpDir \cup {<<"seg", cl.segmentID>>},
                                    cl.segmentID)
              /\ CommitError
    /\ UNCHANGED <<manifestCurrent, manifestFiles, segmentDirs, corruptSegs,
                   nextSeg>>
    /\ CommitFrame

\* ctx.Err() before phase 3; phase 3: re-read and verify every staged file
Phase3Verify(outcome) ==
    /\ up /\ cpc = "p3"
    /\ CASE outcome = "ok" ->
              /\ cpc' = "p4"
              /\ UNCHANGED <<tmpDir, cl, commitRet>>
         [] outcome = "cancelled" ->
              /\ tmpDir' = Rollback(tmpDir, cl.segmentID)
              /\ CommitCancelled("phase 3")
         [] OTHER ->
              /\ tmpDir' = Rollback(tmpDir, cl.segmentID)
              /\ CommitError
    /\ UNCHANGED <<manifestCurrent, manifestFiles, segmentDirs, corruptSegs,
                   nextSeg>>
    /\ CommitFrame

\* phase 4: rename tmp/<segmentID> to segments/<segmentID>, fsync segments/
Phase4Install(outcome) ==
    /\ up /\ cpc = "p4"
    /\ CASE outcome = "ok" ->
              /\ tmpDir' = tmpDir \ {<<"seg", cl.segmentID>>}
              /\ segmentDirs' = segmentDirs \cup {cl.segmentID}
              /\ cpc' = "p5"
              /\ UNCHANGED <<cl, commitRet>>
         [] outcome = "rename" ->
              /\ tmpDir' = Rollback(tmpDir, cl.segmentID)
              /\ UNCHANGED segmentDirs
              /\ CommitError
         [] OTHER ->   \* fsync of segments/ fails after the rename
              /\ tmpDir' = Rollback(tmpDir \ {<<"seg", cl.segmentID>>},
                                    cl.segmentID)
              /\ segmentDirs' = segmentDirs \cup {cl.segmentID}
              /\ CommitError
    /\ UNCHANGED <<manifestCurrent, manifestFiles, corruptSegs, nextSeg>>
    /\ CommitFrame

BuildManifestSamePrevious(prev, gen, newSeg) ==
    [generation |-> gen, previous |-> prev.previous,
     segs |-> prev.segs \cup {newSeg}]

\* Committer.buildManifest: previous segments plus the new one
BuildManifest(prev, gen, newSeg) ==
    [generation |-> gen, previous |-> prev.generation,
     segs |-> prev.segs \cup {newSeg}]

\* phase 5, index.WriteManifest: write tmp/manifest_gen_N.json, rename it
\* into manifests/, fsync manifests/
Phase5Manifest(outcome) ==
    /\ up /\ cpc = "p5"
    /\ LET m == BuildManifest(cl.prev, cl.newGeneration, cl.segmentID)
           g == cl.newGeneration
       IN CASE outcome = "ok" ->
                 /\ manifestFiles' = [manifestFiles EXCEPT ![g] = ManifestFile(m)]
                 /\ UNCHANGED tmpDir
                 /\ cpc' = "p6"
                 /\ UNCHANGED <<cl, commitRet>>
            [] outcome = "write" ->
                 /\ UNCHANGED <<manifestFiles, tmpDir>>
                 /\ CommitError
            [] outcome = "rename" ->
                 /\ tmpDir' = tmpDir \cup {<<"manifest", g>>}
                 /\ UNCHANGED manifestFiles
                 /\ CommitError
            [] OTHER ->   \* fsync of manifests/ fails after the rename
                 /\ manifestFiles' = [manifestFiles EXCEPT ![g] = ManifestFile(m)]
                 /\ UNCHANGED tmpDir
                 /\ CommitError
    /\ UNCHANGED <<manifestCurrent, segmentDirs, corruptSegs, nextSeg>>
    /\ CommitFrame

\* index.WriteCurrentGeneration: the disk after writing tmp/manifest.next,
\* renaming it to manifest.current and fsyncing the index root, when the
\* step named by outcome fails ("ok": none does)
WriteCurrentDisk(outcome, cur, tmp, g) ==
    CASE outcome = "write" -> [current |-> cur, tmp |-> tmp]
      [] outcome = "rename" -> [current |-> cur, tmp |-> tmp \cup {<<"next", g>>}]
      [] OTHER -> [current |-> g, tmp |-> tmp]

\* phase 6: index.WriteCurrentGeneration(newGeneration)
Phase6Activation(outcome) ==
    /\ up /\ cpc = "p6"
    /\ LET d == WriteCurrentDisk(outcome, manifestCurrent, tmpDir,
                                 cl.newGeneration)
       IN /\ manifestCurrent' = d.current
          /\ tmpDir' = d.tmp
    /\ IF outcome = "ok"
       THEN /\ cpc' = "p7"
            /\ UNCHANGED <<cl, commitRet>>
       ELSE CommitError
    /\ UNCHANGED <<manifestFiles, segmentDirs, corruptSegs, nextSeg>>
    /\ CommitFrame

\* phase 7: storage.RemoveDirContents(tmp/), errors are only logged;
\* return the CommitResult.  The caller (IndexInstance.Commit, the tests'
\* doCommit) then loads the new manifest and uses it for the next commit.
Phase7Cleanup(ok) ==
    /\ up /\ cpc = "p7"
    /\ tmpDir' = IF ok THEN {} ELSE tmpDir
    /\ commitRet' = [status |-> "ok", generation |-> cl.newGeneration,
                     cancelled |-> "no"]
    /\ mem' = IF LoadManifestOK(manifestFiles, cl.newGeneration)
              THEN LoadManifest(manifestFiles, cl.newGeneration) ELSE mem
    /\ cpc' = "idle"
    /\ cl' = IdleCommit
    /\ UNCHANGED <<manifestCurrent, manifestFiles, segmentDirs, corruptSegs,
                   nextSeg, up, recRet, faults, interrupted, snapVars, instVars, lockVars,
                   auxVars>>

IOOutcomes == {"ok", "write", "rename", "fsync"}


(***************************************************************************)
(* Environment: crash of the process, corruption of the disk at rest       *)
(***************************************************************************)
\* the generation a commit started from is intact: the commit adds a segment
\* directory and a manifest and leaves those of the generation alone
StartedIntact(g) ==
    /\ manifestFiles[g].st = "ok"
    /\ \A id \in manifestFiles[g].segs :
          id \in segmentDirs /\ id \notin corruptSegs

\* the process dies; everything in memory is lost (results of earlier calls
\* included), the disk stays
Crash ==
    /\ up
    /\ up' = FALSE
    /\ mem' = EmptyManifest
    /\ cpc' = "idle"
    /\ cl' = IdleCommit
    /\ commitRet' = NoResult
    /\ recRet' = NoRecovery
    /\ interrupted' =
          IF cpc = "idle"
          THEN [NoCommit EXCEPT
                  !.recovered = IF commitRet = NoResult THEN recRet
                                ELSE NoRecovery]
          ELSE [commit |-> TRUE, generation |-> cl.prev.generation,
                intact |-> /\ cl.before = cl.prev.generation
                           /\ cl.before = 0 \/ StartedIntact(cl.before),
                recovered |-> NoRecovery]
    /\ UNCHANGED <<manifestCurrent, manifestFiles, segmentDirs, corruptSegs,
                   tmpDir, nextSeg, faults, snapVars, instVars, lockVars, auxVars>>

\* the disk is touched: what the crash interrupted no longer tells what
\* the next Recover finds
FaultFrame ==
    /\ recRet' = NoRecovery
    /\ interrupted' = NoCommit
    /\ UNCHANGED <<manifestCurrent, tmpDir, up, mem, cpc, cl, commitRet,
                   nextSeg, snapVars, instVars, lockVars, auxVars>>

\* a manifest file is overwritten with garbage
CorruptManifest(g) ==
    /\ ~up /\ faults < MaxFaults
    /\ manifestFiles[g].st = "ok"
    /\ manifestFiles' = [manifestFiles EXCEPT ![g] = CorruptFile]
    /\ faults' = faults + 1
    /\ UNCHANGED <<segmentDirs, corruptSegs>>
    /\ FaultFrame

\* a manifest file is lost
DeleteManifest(g) ==
    /\ ~up /\ faults < MaxFaults
    /\ manifestFiles[g].st = "ok"
    /\ manifestFiles' = [manifestFiles EXCEPT ![g] = AbsentFile]
    /\ faults' = faults + 1
    /\ UNCHANGED <<segmentDirs, corruptSegs>>
    /\ FaultFrame

\* a segment file is overwritten: its checksum no longer matches
CorruptSegment(id) ==
    /\ ~up /\ faults < MaxFaults
    /\ id \in segmentDirs \ corruptSegs
    /\ corruptSegs' = corruptSegs \cup {id}
    /\ faults' = faults + 1
    /\ UNCHANGED <<manifestFiles, segmentDirs>>
    /\ FaultFrame

\* a segment directory is lost
RemoveSegmentDir(id) ==
    /\ ~up /\ faults < MaxFaults
    /\ id \in segmentDirs
    /\ segmentDirs' = segmentDirs \ {id}
    /\ corruptSegs' = corruptSegs \ {id}
    /\ faults' = faults + 1
    /\ UNCHANGED manifestFiles
    /\ FaultFrame

(***************************************************************************)
(* internal/recovery: Recover                                              *)
(***************************************************************************)
MaxOf(S) == CHOOSE x \in S : \A y \in S : y <= x

\* index.LoadManifestWithFallback: the first generation, from g down to 1,
\* whose manifest loads; 0 when none does (the error return)
LoadManifestWithFallback(files, g) ==
    LET ok == {x \in 1..g : LoadManifestOK(files, x)}
    IN IF ok = {} THEN 0 ELSE MaxOf(ok)

\* step3VerifySegments: the segments of a manifest that are corrupt
Step3VerifySegments(segs, dirs, bad, verifyChecksums) ==
    {id \in segs : id \notin dirs \/ (verifyChecksums /\ id \in bad)}

\* step4HandleCorruptSegments: the first generation below currentGen whose
\* manifest loads and whose segments all verify; 0 for ErrRecoveryImpossible
Step4HandleCorruptSegments(files, dirs, bad, currentGen, verifyChecksums) ==
    LET ok == {x \in 1..(currentGen - 1) :
                 /\ LoadManifestOK(files, x)
                 /\ Step3VerifySegments(files[x].segs, dirs, bad,
                                        verifyChecksums) = {}}
    IN IF ok = {} THEN 0 ELSE MaxOf(ok)

\* an orphan scan that takes every directory of segments/ for an orphan
EveryDirectory(dirs, segs) == dirs

\* step6IdentifyOrphans: directories of segments/ the manifest does not list
Step6IdentifyOrphans(dirs, segs) == {id \in dirs : id \notin segs}

\* step8CleanOldManifests: the generations whose manifest file is removed:
\* all files sorted by descending generation, the first 1+retention are kept
Step8CleanOldManifests(files, currentGen, retention) ==
    LET present == {g \in DiskGens : files[g].st # "absent"}
        keep == 1 + retention
    IN IF keep > Cardinality(present) THEN {}
       ELSE {g \in present :
               Cardinality({h \in present : h > g}) >= keep}

RecoverError(kind, retention, verify) ==
    /\ recRet' = [NoRecovery EXCEPT !.status = kind, !.retention = retention,
                                    !.verify = verify]
    /\ UNCHANGED <<up, mem>>

\* steps 5 to 9 for the chosen manifest
RecoverFinish(g, fellBack, fellBackFrom, retention, verify) ==
    LET segs == manifestFiles[g].segs
        removed == Step8CleanOldManifests(manifestFiles, g, retention)
    IN /\ tmpDir' = {}
       /\ segmentDirs' = segmentDirs \ Step6IdentifyOrphans(segmentDirs, segs)
       /\ corruptSegs' = corruptSegs \ Step6IdentifyOrphans(segmentDirs, segs)
       /\ manifestFiles' = [x \in DiskGens |->
                              IF x \in removed THEN AbsentFile
                              ELSE manifestFiles[x]]
       /\ recRet' = [status |-> "ok", generation |-> g, segs |-> segs,
                     fellBack |-> fellBack, fellBackFrom |-> fellBackFrom,
                     retention |-> retention, verify |-> verify]
       /\ mem' = LoadManifest(manifestFiles, g)
       /\ up' = TRUE

\* Recover(dir, opts), run at index open; wc is the outcome of the
\* WriteCurrentGeneration call of step 4
Recover(retention, verify, wc) ==
    /\ ~up
    /\ UNCHANGED <<cpc, cl, commitRet, nextSeg, faults, interrupted, snapVars,
                   instVars, lockVars, auxVars>>
    /\ IF manifestCurrent = 0
       THEN \* generation 0: only tmp/ is cleaned
            /\ tmpDir' = {}
            /\ recRet' = [NoRecovery EXCEPT !.status = "ok",
                                            !.retention = retention,
                                            !.verify = verify]
            /\ mem' = EmptyManifest
            /\ up' = TRUE
            /\ UNCHANGED <<manifestCurrent, manifestFiles, segmentDirs,
                           corruptSegs>>
       ELSE LET g2 == LoadManifestWithFallback(manifestFiles, manifestCurrent)
                corrupt == Step3VerifySegments(manifestFiles[g2].segs,
                                               segmentDirs, corruptSegs, verify)
                g4 == Step4HandleCorruptSegments(manifestFiles, segmentDirs,
                                                 corruptSegs, g2, verify)
            IN IF g2 = 0
               THEN /\ RecoverError("no valid manifest", retention, verify)
                    /\ UNCHANGED <<manifestCurrent, manifestFiles, segmentDirs,
                                   corruptSegs, tmpDir>>
               ELSE IF corrupt = {}
               THEN /\ RecoverFinish(g2, g2 # manifestCurrent, 
                                     IF g2 # manifestCurrent
                                     THEN manifestCurrent ELSE 0,
                                     retention, verify)
                    /\ UNCHANGED manifestCurrent
               ELSE IF g4 = 0
               THEN /\ RecoverError("ErrRecoveryImpossible", retention, verify)
                    /\ UNCHANGED <<manifestCurrent, manifestFiles, segmentDirs,
                                   corruptSegs, tmpDir>>
               ELSE IF wc # "ok"
               THEN LET d == WriteCurrentDisk(wc, manifestCurrent, tmpDir, g4)
                    IN /\ manifestCurrent' = d.current
                       /\ tmpDir' = d.tmp
                       /\ RecoverError("write manifest.current", retention, verify)
                       /\ UNCHANGED <<manifestFiles, segmentDirs, corruptSegs>>
               ELSE /\ manifestCurrent' = g4
                    /\ RecoverFinish(g4, TRUE, g2, retention, verify)

(***************************************************************************)
(* Claims about commit and recovery                                        *)
(***************************************************************************)
\* the step in which Committer.Commit returns an error
CommitReturnsError ==
    up /\ up' /\ cpc # "idle" /\ cpc' = "idle" /\ commitRet'.status = "error"

\* the step in which Recover returns successfully
RecoverSucceeds == ~up /\ up'

\* a generation is fully intact: its manifest loads and every listed segment
\* has its directory and, when checksums are verified, no mismatching file
Intact(g, verify) ==
    /\ manifestFiles[g].st = "ok"
    /\ \A id \in manifestFiles[g].segs :
          id \in segmentDirs /\ (verify => id \notin corruptSegs)

IntactGens(verify) == {g \in 1..manifestCurrent : Intact(g, verify)}

\* C3 (as claimed): whenever Committer.Commit returns an error, whichever
\* I/O step of phases 1-6 failed, manifest.current still names the generation
\* it named before the call.
C3_ErrorKeepsCurrent ==
    [][CommitReturnsError => manifestCurrent' = cl.before]_vars

\* C4: a successful Recover on an index whose manifest.current names g >= 1
\* returns the largest generation g' <= g whose manifest loads and whose
\* segments all pass verification.
C4_RecoverNewestIntact ==
    [][(RecoverSucceeds /\ manifestCurrent >= 1) =>
          /\ IntactGens(recRet'.verify) # {}
          /\ recRet'.generation = MaxOf(IntactGens(recRet'.verify))]_vars

\* C4 witness: Recover succeeded after stepping over a generation whose
\* manifest loads but has a corrupt segment, and over nothing intact.
C4_Witness ==
    /\ up /\ recRet.status = "ok" /\ recRet.fellBack
    /\ recRet.generation >= 1
    /\ manifestFiles[recRet.fellBackFrom].st = "ok"
    /\ manifestCurrent = recRet.generation

\* C7 (as claimed): whenever Recover returns successfully with fell_back set,
\* manifest.current afterwards holds the returned generation.
C7_FallbackRewritesCurrent ==
    [][(RecoverSucceeds /\ recRet'.fellBack) =>
          manifestCurrent' = recRet'.generation]_vars

\* the r most recent predecessors of g among the manifest files on disk
RecentPredecessors(g, r) ==
    {x \in 1..(g - 1) :
        /\ manifestFiles[x].st # "absent"
        /\ Cardinality({y \in (x + 1)..(g - 1) :
                          manifestFiles[y].st # "absent"}) < r}

\* C8 (as claimed): after a successful Recover returning g with
\* manifest_retention r, the manifest file of g and those of its r most recent
\* predecessors still exist and every older manifest file has been removed.
C8_PruneKeepsActive ==
    [][(RecoverSucceeds /\ recRet'.generation >= 1) =>
          LET g == recRet'.generation
              keep == RecentPredecessors(g, recRet'.retention)
          IN /\ manifestFiles'[g].st # "absent"
             /\ \A x \in keep : manifestFiles'[x].st # "absent"
             /\ \A x \in 1..(g - 1) :
                   x \notin keep => manifestFiles'[x].st = "absent"]_vars

\* C9 (as claimed): after a successful Recover the subdirectories of segments/
\* are exactly the segments of the returned manifest (none for generation 0).
C9_OnlyReferencedSegments ==
    [][RecoverSucceeds => segmentDirs' = recRet'.segs]_vars

\* C10 (as claimed): when manifest.current names g >= 1 and no generation in
\* 1..g is fully intact, Recover fails with RecoveryImpossible.
C10_NothingIntactIsImpossible ==
    [][\A r \in 0..MaxRetention, v \in BOOLEAN, wc \in IOOutcomes :
          (Recover(r, v, wc) /\ manifestCurrent >= 1 /\ IntactGens(v) = {})
             => recRet'.status = "ErrRecoveryImpossible"]_vars

\* Committer.Commit returns its CommitResult (phase 7 done)
CommitSucceeds == up /\ up' /\ cpc = "p7" /\ cpc' = "idle"

\* C11: every successful Commit given previous manifest m writes a manifest
\* m' with m'.generation = m.generation + 1 and m'.previous_generation =
\* m.generation and returns that generation; the caller's next commit starts
\* from m', so successive successful commits are numbered 1, 2, 3, ...
C11_GenerationsSucceed ==
    [][CommitSucceeds =>
         LET g == commitRet'.generation IN
           /\ commitRet'.status = "ok"
           /\ g = cl.prev.generation + 1
           /\ g = mem.generation + 1
           /\ manifestFiles'[g].st = "ok"
           /\ manifestFiles'[g].generation = g
           /\ manifestFiles'[g].previous = cl.prev.generation
           /\ manifestCurrent' = g
           /\ mem'.generation = g]_vars

\* C11 witness: a second commit has succeeded on top of the first
C11_Witness ==
    /\ up /\ cpc = "idle"
    /\ commitRet.status = "ok" /\ commitRet.generation = 2
    /\ manifestFiles[2].st = "ok" /\ manifestFiles[2].previous = 1
    /\ manifestFiles[1].st = "ok" /\ manifestFiles[1].previous = 0

\* a Commit call returns having observed cancellation at a ctx.Err() check
CommitObservesCancel ==
    up /\ cpc \in {"p2", "p3"} /\ cpc' = "idle" /\ commitRet'.cancelled # "no"

C21_FailureRemovesStaged ==
    [][(CommitReturnsError /\ cpc \in {"p1", "p2", "p3", "p4"}) =>
         /\ <<"seg", cl.segmentID>> \notin tmpDir'
         /\ cl.segmentID \notin segmentDirs']_vars

\* the step in which Recover returns, the first time after a crash that
\* interrupted a commit started from an intact generation, the disk not
\* touched in between
RecoverAfterInterruptedCommit ==
    /\ ~up /\ recRet.status = "none" /\ recRet'.status # "none"
    /\ interrupted.commit /\ interrupted.intact

\* C36: after a crash at any point of a Commit that started from an intact
\* generation g, the next Recover succeeds without falling back and returns
\* generation g or g + 1, and every segment of the manifest it returns is
\* present and verified.
C36_CrashInCommitRecovers ==
    [][RecoverAfterInterruptedCommit =>
          /\ recRet'.status = "ok" /\ up'
          /\ ~recRet'.fellBack
          /\ recRet'.generation \in {interrupted.generation,
                                     interrupted.generation + 1}
          /\ mem'.generation = recRet'.generation
          /\ \A id \in mem'.segs :
                id \in segmentDirs' /\ id \notin corruptSegs']_vars

\* Recover returned generation g + 1 after a crash between the activation
\* and the end of a commit from generation g >= 1
C36_Witness ==
    /\ up /\ recRet.status = "ok" /\ ~recRet.fellBack
    /\ interrupted.commit /\ interrupted.intact
    /\ interrupted.generation >= 1
    /\ recRet.generation = interrupted.generation + 1
    /\ Cardinality(mem.segs) = 2 /\ cpc = "idle" /\ commitRet = NoResult

\* the step in which Recover returns for the second time: the first Recover
\* succeeded, the process stopped before any other call, the disk was not
\* touched and the options are the same
SecondRecover ==
    /\ ~up /\ recRet.status = "none" /\ recRet'.status # "none"
    /\ interrupted.recovered.status = "ok"
    /\ recRet'.retention = interrupted.recovered.retention
    /\ recRet'.verify = interrupted.recovered.verify

\* C37: Recover is idempotent: a second Recover right after a successful
\* one, with no writes in between, succeeds, returns the same generation and
\* the same manifest, and removes no further manifest, segment or tmp entry.
C37_RecoverIdempotent ==
    [][SecondRecover =>
          /\ recRet'.status = "ok"
          /\ recRet'.generation = interrupted.recovered.generation
          /\ recRet'.segs = interrupted.recovered.segs
          /\ manifestFiles' = manifestFiles
          /\ segmentDirs' = segmentDirs
          /\ tmpDir' = tmpDir]_vars

NextDisk ==
    \/ CommitCall
    \/ \E ok \in BOOLEAN : Phase1Prepare(ok)
    \/ \E o \in {"ok", "cancelled", "write"} : Phase2Write(o)
    \/ \E o \in {"ok", "cancelled", "verify"} : Phase3Verify(o)
    \/ \E o \in {"ok", "rename", "fsync"} : Phase4Install(o)
    \/ \E o \in IOOutcomes : Phase5Manifest(o)
    \/ \E o \in IOOutcomes : Phase6Activation(o)
    \/ \E ok \in BOOLEAN : Phase7Cleanup(ok)
    \/ Crash
    \/ \E g \in DiskGens : CorruptManifest(g)
    \/ \E g \in DiskGens : DeleteManifest(g)
    \/ \E id \in 1..MaxDiskSegs : CorruptSegment(id)
    \/ \E id \in 1..MaxDiskSegs : RemoveSegmentDir(id)
    \/ \E r \in 0..MaxRetention, v \in BOOLEAN, wc \in IOOutcomes :
         Recover(r, v, wc)

InitDisk == SnapIdle /\ DiskInit /\ InstInit /\ LockInit /\ AuxInit

SpecDisk == InitDisk /\ [][NextDisk]_vars

(***************************************************************************)
(* Claims about the snapshot manager                                       *)
(***************************************************************************)
\* snapshots on which Release has not yet taken effect
Unreleased == {s \in DOMAIN snapshots : ~snapshots[s].released}

\* C1: every snapshot returned by Acquire keeps, while it is unreleased, the
\* generation and the segment list that the manager had when it was acquired,
\* whatever UpdateGeneration, Acquire and Release calls happen afterwards.
C1_SnapshotImmutable ==
    /\ [](\A s \in Unreleased :
            /\ snapshots[s].Generation = history[s].gen
            /\ SegmentIDs(RefSet(snapshots[s].Segments)) = history[s].ids)
    /\ [][\A s \in Unreleased :
            /\ snapshots'[s].Generation = snapshots[s].Generation
            /\ snapshots'[s].Segments = snapshots[s].Segments
            /\ \A r \in RefSet(snapshots[s].Segments) :
                 refs'[r].segmentID = refs[r].segmentID]_vars

\* C1 witness: an unreleased snapshot with segments observes a generation
\* older than the manager's current one, whose segment set differs.
C1_Witness ==
    \E s \in Unreleased :
        /\ snapshots[s].Segments # <<>>
        /\ snapshots[s].Generation < currentGeneration
        /\ SegmentIDs(RefSet(snapshots[s].Segments)) # DOMAIN currentSegments

\* C2: every segment id in the list returned by UpdateGeneration is absent
\* from the new segment set and is listed by no snapshot that is unreleased.
C2_ReturnedAreUnreferenced ==
    \A id \in ugRet :
        /\ id \notin DOMAIN currentSegments
        /\ \A s \in Unreleased : id \notin SegmentIDs(RefSet(snapshots[s].Segments))

\* C2 witness: UpdateGeneration returned a segment while an unreleased
\* snapshot still pins another segment that has left the manifest.
C2_Witness ==
    /\ ugRet # {}
    /\ wpc = "idle"
    /\ \E s \in Unreleased : \E r \in RefSet(snapshots[s].Segments) :
          ~refs[r].inManifest

\* C12: the manager's current generation never decreases and changes only
\* through UpdateGeneration: a call with new_g > current sets it to new_g, a
\* call with new_g <= current panics and leaves the generation and the
\* segment map as they were.
C12_GenerationMonotonic ==
    /\ [][currentGeneration' >= currentGeneration]_vars
    /\ [][currentGeneration' # currentGeneration =>
            /\ wpc = "mark" /\ wpc' = "idle"
            /\ wl.newGen > currentGeneration
            /\ currentGeneration' = wl.newGen]_vars
    /\ [][\A g \in NewGenerations, ids \in NewSegmentSets :
            (UpdateGenerationLock(g, ids) \/ UpdateGenerationPanic(g)) =>
               IF g > currentGeneration
               THEN wl'.newGen = g /\ ~panicked'
               ELSE /\ panicked'
                    /\ UNCHANGED <<currentGeneration, currentSegments>>]_vars

\* C12 witness: the generation was raised past its successor and a later
\* call with a generation that is not larger panicked
C12_Witness ==
    /\ panicked
    /\ currentGeneration = MaxGen
    /\ wpc = "idle"
    /\ \E s \in DOMAIN snapshots : snapshots[s].Generation + 1 < currentGeneration

\* C13: for a segment id present both before and after an UpdateGeneration
\* call the very same SegmentRef is kept: the call leaves its ref_count as it
\* was, and a snapshot acquired before the call holds, for that id, the ref
\* that the manager's map holds after it (so its Release decrements the
\* counter that later snapshots increment).
C13_CarriedRefKept ==
    /\ [](\A s \in Unreleased : \A r \in RefSet(snapshots[s].Segments) :
             refs[r].segmentID \in DOMAIN currentSegments =>
                currentSegments[refs[r].segmentID] = r)
    /\ [][\A g \in NewGenerations, ids \in NewSegmentSets :
            UpdateGenerationLock(g, ids) =>
               /\ \A id \in ids \cap DOMAIN currentSegments :
                     wl'.newRefs[id] = currentSegments[id]
               /\ \A r \in DOMAIN refs : refs'[r].refCount = refs[r].refCount]_vars
    /\ [][UpdateGenerationMark =>
            \A r \in DOMAIN refs : refs'[r].refCount = refs[r].refCount]_vars
    /\ [][(wpc = "mark" /\ wpc' = "idle") =>
            \A id \in (DOMAIN currentSegments) \cap (DOMAIN currentSegments') :
               /\ currentSegments'[id] = currentSegments[id]
               /\ refs'[currentSegments[id]].refCount =
                     refs[currentSegments[id]].refCount]_vars

\* C13 witness: a carried segment is pinned both by a snapshot acquired
\* before the generation changed and by one acquired after it
C13_Witness ==
    \E s1 \in Unreleased, s2 \in Unreleased :
        /\ snapshots[s1].Generation < snapshots[s2].Generation
        /\ snapshots[s2].Generation = currentGeneration
        /\ \E r \in RefSet(snapshots[s1].Segments) \cap RefSet(snapshots[s2].Segments) :
              refs[r].refCount = 2 /\ refs[r].inManifest

\* C14: for every SegmentRef, ref_count >= 0 in every reachable state of any
\* interleaving of Acquire, Release (repeated and concurrent Release of one
\* snapshot included) and UpdateGeneration.
C14_RefCountNonNegative ==
    \A r \in DOMAIN refs : refs[r].refCount >= 0

\* C14 witness: a Release in progress has brought the count of a segment that
\* left the manifest down to 0, and a concurrent Release of the same snapshot
\* has already returned
C14_Witness ==
    \E t \in Threads :
        /\ tpc[t] = "unpin"
        /\ snapshots[tl[t].snap].released
        /\ history[tl[t].snap].again
        /\ \E r \in RefSet(snapshots[tl[t].snap].Segments) \ RefSet(tl[t].toUnpin) :
              refs[r].refCount = 0 /\ ~refs[r].inManifest

\* the threads inside Release of snapshot s (past the compare-and-set)
Releasing(s) == {t \in Threads : tpc[t] = "unpin" /\ tl[t].snap = s}

\* C15: for any number of Release calls on one snapshot, sequential or
\* concurrent, every call returns (none panics), each ref pinned by the
\* snapshot is decremented exactly once and the snapshot leaves the active set
\* exactly once.
C15_ReleaseIdempotent ==
    /\ [](\A s \in DOMAIN snapshots :
            /\ Cardinality(Releasing(s)) <= 1
            /\ history[s].removed <= 1
            /\ Len(history[s].unpinned) <= Len(snapshots[s].Segments)
            /\ history[s].unpinned =
                  SubSeq(snapshots[s].Segments, 1, Len(history[s].unpinned))
            /\ (snapshots[s].released /\ Releasing(s) = {}) =>
                  /\ history[s].unpinned = snapshots[s].Segments
                  /\ history[s].removed = 1
                  /\ s \notin activeSnapshots)
    /\ [][\A t \in Threads :
            (ReleaseUnpin(t) \/ ReleaseNotify(t)) => ~panicked']_vars
    /\ [][\A t \in Threads, s \in DOMAIN snapshots :
            (ReleaseCAS(t, s) /\ snapshots[s].released) =>
               UNCHANGED <<refs, activeSnapshots, snapshots, tpc>>]_vars

\* C15 witness: a snapshot with segments was released completely and a
\* further Release call on it has returned
C15_Witness ==
    \E s \in DOMAIN snapshots :
        /\ snapshots[s].Segments # <<>>
        /\ snapshots[s].released
        /\ history[s].again
        /\ history[s].removed = 1
        /\ history[s].unpinned = snapshots[s].Segments
        /\ \A t \in Threads : tpc[t] = "idle"

\* C16: whenever no Acquire or Release call is in progress, the active set
\* holds exactly the acquired-and-unreleased snapshots and each ref_count is
\* the number of unreleased snapshots that list the ref (both are 0 once
\* every snapshot is released), whatever UpdateGeneration is doing.
C16_CountsMatchSnapshots ==
    (\A t \in Threads : tpc[t] = "idle") =>
        /\ activeSnapshots = Unreleased
        /\ Cardinality(activeSnapshots) = Cardinality(Unreleased)
        /\ \A r \in DOMAIN refs :
              refs[r].refCount =
                 Cardinality({s \in Unreleased : r \in RefSet(snapshots[s].Segments)})

\* C16 witness: readers are idle in the middle of an UpdateGeneration call,
\* with one snapshot released and another, holding a pinned segment, not
C16_Witness ==
    /\ \A t \in Threads : tpc[t] = "idle"
    /\ wpc = "mark"
    /\ \E s \in DOMAIN snapshots : snapshots[s].released /\ snapshots[s].Segments # <<>>
    /\ \E s \in Unreleased : \E r \in RefSet(snapshots[s].Segments) :
          refs[r].refCount = 1

\* segments that left the manifest while pinned and whose pins are all released
ReclaimDue == {refs[r].segmentID :
                 r \in {x \in leftPinned : refs[x].refCount = 0}}

\* C5 (as claimed): a segment that left the manifest while pinned is in the
\* list returned by a Reclaimable() call made after its last pin was released.
C5_ReclaimableFindsReleased ==
    (~generationMu /\ \E t \in Threads : tpc[t] = "idle")
        => ReclaimDue \subseteq ReclaimableScan

\* C38: once a SegmentRef has left the manifest no later Acquire pins it: it
\* stays out of the manifest, its ref_count never increases again, and once
\* CanReclaim is true of it, it stays true.
C38_LeftManifestNeverPinned ==
    [][\A r \in DOMAIN refs :
          ~refs[r].inManifest =>
             /\ ~refs'[r].inManifest
             /\ refs'[r].refCount <= refs[r].refCount
             /\ CanReclaim(refs[r]) => CanReclaim(refs'[r])]_vars

\* a snapshot was acquired from the generation that followed the one a
\* reclaimable segment left the manifest in, and does not hold that segment
C38_Witness ==
    /\ wpc = "idle"
    /\ \E r \in DOMAIN refs, s \in DOMAIN snapshots :
          /\ CanReclaim(refs[r])
          /\ r \notin Range(currentSegments)
          /\ ~snapshots[s].released
          /\ snapshots[s].Generation = currentGeneration
          /\ snapshots[s].Segments # <<>>
          /\ r \notin RefSet(snapshots[s].Segments)

\* (a panic that nothing recovers ends the process: no step follows it)
NextSnap ==
    \/ \E t \in Threads : AcquireRLock(t)
    \/ \E t \in Threads : AcquireRegister(t)
    \/ \E t \in Threads, s \in DOMAIN snapshots : ReleaseCAS(t, s)
    \/ \E t \in Threads : ReleaseUnpin(t)
    \/ \E t \in Threads : ReleaseNotify(t)
    \/ \E g \in NewGenerations : UpdateGenerationPanic(g)
    \/ \E g \in NewGenerations, ids \in NewSegmentSets :
         UpdateGenerationLock(g, ids)
    \/ UpdateGenerationMark
    \/ UpdateGenerationSwap
    \/ \E t \in Threads : Reclaimable(t)

InitSnap == SnapInit /\ DiskInit /\ InstInit /\ LockInit /\ AuxInit

SpecSnap == InitSnap /\ [][NextSnap]_vars

(***************************************************************************)
(* internal/server: IndexInstance                                          *)
(***************************************************************************)
\* what the steps of IndexInstance leave alone in the manager and on disk
snapRest == <<snapshots, activeSnapshots, nextSnapshotID, generationMu, tpc,
              tl, wpc, wl, reclaimRet, nextSegId, history, leftPinned>>
diskRest == <<corruptSegs, tmpDir, up, mem, cpc, cl, commitRet, recRet,
              faults, interrupted>>
diskState == <<manifestCurrent, manifestFiles, segmentDirs, nextSeg>>

\* indexing.NewWriter: active, empty buffer (docs: the documents it holds)
NewWriter == [active |-> TRUE, docs |-> {}]

\* WriteBuffer.DocCount
DocCount(w) == Cardinality(writers[w].docs)

WriterNeverHeld == FALSE

\* the test inst.writer != nil of AcquireWriter
WriterHeld == writer # 0

\* AcquireWriter: under writerMu, ErrWriterBusy if inst.writer != nil,
\* else a new Writer becomes inst.writer
AcquireWriter(t) ==
    /\ ~panicked
    /\ ipc[t] = "idle"
    /\ IF WriterHeld
       THEN /\ il' = [il EXCEPT ![t].acquire = "ErrWriterBusy"]
            /\ UNCHANGED <<writer, writers>>
       ELSE /\ Len(writers) < MaxWriters
            /\ writers' = Append(writers, NewWriter)
            /\ writer' = Len(writers) + 1
            /\ il' = [il EXCEPT ![t].acquire = "ok"]
    /\ UNCHANGED <<currentManifest, ipc, docVars, snapVars, diskVars, lockVars, auxVars>>

\* ReleaseWriter: under writerMu, if inst.writer != nil
\* { inst.writer.Release(); inst.writer = nil }
ReleaseWriter(t) ==
    /\ ~panicked
    /\ ipc[t] = "idle"
    /\ IF writer # 0
       THEN /\ writers' = [writers EXCEPT ![writer].active = FALSE]
            /\ writer' = 0
       ELSE UNCHANGED <<writer, writers>>
    /\ UNCHANGED <<currentManifest, ipc, il, docVars, snapVars, diskVars,
                   lockVars, auxVars>>

\* IngestDocuments: w read under writerMu, then w.AddDocuments
IngestDocuments(t) ==
    /\ ~panicked
    /\ ipc[t] = "idle"
    /\ writer # 0
    /\ writers[writer].active
    /\ ingested < MaxDocs
    /\ ingested' = ingested + 1
    /\ writers' = [writers EXCEPT ![writer].docs = @ \cup {ingested + 1}]
    /\ UNCHANGED <<writer, currentManifest, ipc, il, committedDocs, searchRet,
                   snapVars, diskVars, lockVars, auxVars>>

\* Commit: writerMu.Lock(); w := inst.writer; writerMu.Unlock();
\* ErrWriterBusy if w is nil, ErrIndexEmpty if the buffer is empty;
\* segData := buildSegmentData(buf)
CommitReadWriter(t) ==
    /\ ~panicked
    /\ ipc[t] = "idle"
    /\ writer # 0
    /\ DocCount(writer) > 0
    /\ il' = [il EXCEPT ![t] = [IdleInst EXCEPT !.w = writer,
                                              !.segData = writers[writer].docs]]
    /\ ipc' = [ipc EXCEPT ![t] = "manifest"]
    /\ UNCHANGED <<writer, writers, currentManifest, docVars, snapVars, diskVars,
                   lockVars, auxVars>>

\* Commit: manifestMu.RLock(); currentManifest := inst.currentManifest
CommitReadManifest(t) ==
    /\ ~panicked
    /\ ipc[t] = "manifest"
    /\ il' = [il EXCEPT ![t].cur = currentManifest]
    /\ ipc' = [ipc EXCEPT ![t] = "commit"]
    /\ UNCHANGED <<writer, writers, currentManifest, docVars, snapVars, diskVars,
                   lockVars, auxVars>>

\* Commit: inst.Committer.Commit(ctx, currentManifest, segData). The phases
\* are the steps of Committer.Commit above; here the call is one step, which
\* installs segments/<id>, manifest_gen_<N+1> and manifest.current, or fails.
CommitProtocol(t, ok) ==
    /\ ~panicked
    /\ ipc[t] = "commit"
    /\ IF ok
       THEN LET newGeneration == il[t].cur.generation + 1
                m == BuildManifest(il[t].cur, newGeneration, nextSeg)
            IN /\ newGeneration <= MaxDiskGen
               /\ nextSeg <= MaxDiskSegs
               /\ segmentDirs' = segmentDirs \cup {nextSeg}
               /\ manifestFiles' =
                     [manifestFiles EXCEPT ![newGeneration] = ManifestFile(m)]
               /\ manifestCurrent' = newGeneration
               /\ nextSeg' = nextSeg + 1
               /\ il' = [il EXCEPT ![t].result = newGeneration]
               /\ ipc' = [ipc EXCEPT ![t] = "load"]
               /\ committedDocs' = committedDocs \cup il[t].segData
       ELSE /\ il' = [il EXCEPT ![t] = IdleInst]
            /\ ipc' = [ipc EXCEPT ![t] = "idle"]
            /\ UNCHANGED <<diskState, committedDocs>>
    /\ UNCHANGED <<writer, writers, currentManifest, ingested, searchRet,
                   snapVars, diskRest, lockVars, auxVars>>

\* Commit: index.LoadManifest(inst.Dir, result.Generation)
CommitLoadManifest(t) ==
    /\ ~panicked
    /\ ipc[t] = "load"
    /\ IF LoadManifestOK(manifestFiles, il[t].result)
       THEN /\ il' = [il EXCEPT ![t].newManifest =
                         LoadManifest(manifestFiles, il[t].result)]
            /\ ipc' = [ipc EXCEPT ![t] = "update"]
       ELSE /\ il' = [il EXCEPT ![t] = IdleInst]
            /\ ipc' = [ipc EXCEPT ![t] = "idle"]
    /\ UNCHANGED <<writer, writers, currentManifest, docVars, snapVars, diskVars,
                   lockVars, auxVars>>

\* Manager.UpdateGeneration as one step (no reader runs beside it): the refs
\* after marking the ids that left, and the ids it returns
MarkedHeap(newIds) ==
    LET heap == NewRefsHeap(newIds)
        left == {currentSegments[id] : id \in (DOMAIN currentSegments) \ newIds}
    IN [r \in DOMAIN heap |->
          IF r \in left THEN SetInManifest(heap[r], FALSE) ELSE heap[r]]

ReclaimableAfter(newIds) ==
    {id \in (DOMAIN currentSegments) \ newIds :
        CanReclaim(MarkedHeap(newIds)[currentSegments[id]])}

\* Commit: reclaimable := inst.Snapshots.UpdateGeneration(result.Generation,
\* segmentIDs); os.RemoveAll(segments/<id>) for each id returned
CommitUpdateGeneration(t) ==
    /\ ~panicked
    /\ ipc[t] = "update"
    /\ LET newIds == il[t].newManifest.segs IN
         IF il[t].result <= currentGeneration
         THEN /\ panicked' = TRUE
              /\ UNCHANGED <<currentGeneration, currentSegments, refs, ugRet,
                             segmentDirs, ipc>>
         ELSE /\ refs' = MarkedHeap(newIds)
              /\ currentSegments' = NewRefsMap(newIds, NewRefsHeap(newIds))
              /\ currentGeneration' = il[t].result
              /\ ugRet' = ReclaimableAfter(newIds)
              /\ segmentDirs' = segmentDirs \ ReclaimableAfter(newIds)
              /\ ipc' = [ipc EXCEPT ![t] = "install"]
              /\ UNCHANGED panicked
    /\ UNCHANGED <<writer, writers, currentManifest, il, docVars, snapRest,
                   diskRest, lockVars, auxVars,
                   manifestCurrent, manifestFiles, nextSeg>>

\* Commit: manifestMu.Lock(); inst.currentManifest = newManifest; w.Abort()
CommitInstall(t) ==
    /\ ~panicked
    /\ ipc[t] = "install"
    /\ currentManifest' = il[t].newManifest
    /\ writers' = [writers EXCEPT ![il[t].w].docs = {}]
    /\ il' = [il EXCEPT ![t] = IdleInst]
    /\ ipc' = [ipc EXCEPT ![t] = "idle"]
    /\ UNCHANGED <<writer, docVars, snapVars, diskVars, lockVars, auxVars>>

\* handleSearch / executeSearch: w := inst.writer under writerMu; no hits if
\* w is nil, else the matching documents of w.Buffer() (here: a query that
\* matches every document)
Search(t) ==
    /\ ~panicked
    /\ ipc[t] = "idle"
    /\ searchRet' = IF writer = 0 THEN {} ELSE writers[writer].docs
    /\ UNCHANGED <<writer, writers, currentManifest, ipc, il, ingested,
                   committedDocs, snapVars, diskVars, lockVars, auxVars>>

\* a Commit is between reading the current manifest and installing the new one
InProtocol(t) == ipc[t] \in {"commit", "load", "update", "install"}

\* C6 (as claimed): executions of the commit protocol of one index never
\* overlap: while one IndexInstance.Commit is between reading the current
\* manifest and installing the new one, no other Commit is, so no two Commits
\* build generation N+1 from the same generation N.
C6_CommitsNeverOverlap ==
    \A t1 \in Threads, t2 \in Threads :
        (t1 # t2 /\ InProtocol(t1)) => ~InProtocol(t2)

\* the Writer objects that are held (not released)
ActiveWriters == {w \in DOMAIN writers : writers[w].active}

\* C18: at most one writer is held per index at any time: AcquireWriter
\* while a writer is held fails with the writer-busy error and leaves the held
\* writer untouched, and ReleaseWriter when no writer is held is a no-op.
C18_SingleWriter ==
    /\ [](/\ Cardinality(ActiveWriters) <= 1
          /\ ActiveWriters = (IF writer = 0 THEN {} ELSE {writer}))
    /\ [][\A t \in Threads : AcquireWriter(t) =>
            IF writer # 0
            THEN /\ il'[t].acquire = "ErrWriterBusy"
                 /\ UNCHANGED <<writer, writers>>
            ELSE /\ il'[t].acquire = "ok"
                 /\ writer' \notin DOMAIN writers
                 /\ writers'[writer'] = NewWriter]_vars
    /\ [][\A t \in Threads : (ReleaseWriter(t) /\ writer = 0) =>
            UNCHANGED <<writer, writers>>]_vars

\* C18 witness: a second writer is held with buffered documents, and an
\* AcquireWriter call made meanwhile was refused
C18_Witness ==
    /\ writer = 2
    /\ DocCount(2) > 0
    /\ ~writers[1].active
    /\ \E t \in Threads : il[t].acquire = "ErrWriterBusy"

\* C19 (as claimed): no search returns a document that has been ingested but
\* not yet committed: every hit is a document of a commit that succeeded.
C19_SearchSeesCommittedOnly == searchRet \subseteq committedDocs

NextInst ==
    \/ \E t \in Threads : AcquireWriter(t)
    \/ \E t \in Threads : ReleaseWriter(t)
    \/ \E t \in Threads : IngestDocuments(t)
    \/ \E t \in Threads : CommitReadWriter(t)
    \/ \E t \in Threads : CommitReadManifest(t)
    \/ \E t \in Threads, ok \in BOOLEAN : CommitProtocol(t, ok)
    \/ \E t \in Threads : CommitLoadManifest(t)
    \/ \E t \in Threads : CommitUpdateGeneration(t)
    \/ \E t \in Threads : CommitInstall(t)

InitInst == SnapIdle /\ DiskInit /\ InstInit /\ LockInit /\ AuxInit

SpecInst == InitInst /\ [][NextInst]_vars

\* the index instance with search requests
NextSearch ==
    \/ NextInst
    \/ \E t \in Threads : Search(t)

InitSearch == SnapIdle /\ DiskInit /\ InstInit /\ LockInit /\ AuxInit

SpecSearch == InitSearch /\ [][NextSearch]_vars

(***************************************************************************)
(* internal/snapshot: the locks taken by each operation                    *)
(***************************************************************************)
\* Manager.generationMu (RWMutex), Manager.snapshotsMu, SegmentRef.mu
GenerationMu == <<"generationMu", 0>>
SnapshotsMu == <<"snapshotsMu", 0>>
RefMu(id) == <<"mu", id>>

\* Lock ordering: generationMu -> snapshotsMu -> SegmentRef.mu
LockRank(l) ==
    CASE l[1] = "generationMu" -> 1
      [] l[1] = "snapshotsMu" -> 2
      [] OTHER -> 3

\* sync.RWMutex.Lock: announce the writer (new readers wait), then wait for
\* the readers to leave
WLock(l) == << <<"announce", l>>, <<"lock", l>> >>
WUnlock(l) == << <<"unlock", l>> >>
RLock(l) == << <<"rlock", l>> >>
RUnlock(l) == << <<"runlock", l>> >>
\* sync.Mutex.Lock ... Unlock around a short section
Locked(l) == << <<"lock", l>>, <<"unlock", l>> >>

RECURSIVE Concat(_)
Concat(ss) == IF ss = <<>> THEN <<>> ELSE Head(ss) \o Concat(Tail(ss))

\* one piece of program (piece[id]) per id of a set, in map order
ForEach(ids, piece) ==
    Concat([i \in DOMAIN MapOrder(ids) |-> piece[MapOrder(ids)[i]]])

\* Acquire: RLock, Pin (atomic) for each ref, RUnlock; then snapshotsMu
AcquireLocks == RLock(GenerationMu) \o RUnlock(GenerationMu) \o Locked(SnapshotsMu)

\* Release: CompareAndSwap and Unpin are atomics; releaseSnapshot locks
ReleaseLocks == Locked(SnapshotsMu)

\* SetInManifest(false), then CanReclaim, on a ref that left
MarkLocks(id) == Locked(RefMu(id)) \o Locked(RefMu(id))

\* SetInManifest(true) on a ref created for a new id
NewRefLocks(id) == Locked(RefMu(id))

\* UpdateGeneration: Lock; new refs; refs that left; deferred Unlock
UpdateGenerationLocks(fresh, left) ==
    WLock(GenerationMu)
        \o ForEach(fresh, [id \in LockIds |-> NewRefLocks(id)])
        \o ForEach(left, [id \in LockIds |-> MarkLocks(id)])
        \o WUnlock(GenerationMu)

\* UpdateGeneration that panics: Lock, then the deferred Unlock
UpdateGenerationPanicLocks == WLock(GenerationMu) \o WUnlock(GenerationMu)

\* CanReclaim on each current ref
ScanLocks(id) == Locked(RefMu(id))

\* Reclaimable: RLock; CanReclaim on every current ref; deferred RUnlock
ReclaimableLocks(current) ==
    RLock(GenerationMu)
        \o ForEach(current, [id \in LockIds |-> ScanLocks(id)])
        \o RUnlock(GenerationMu)

\* SegmentRefCount, CurrentGeneration: RLock; atomic load; deferred RUnlock
SegmentRefCountLocks == RLock(GenerationMu) \o RUnlock(GenerationMu)

DetectLeaksTakesGeneration ==
    << <<"lock", SnapshotsMu>> >> \o RLock(GenerationMu)
        \o RUnlock(GenerationMu) \o << <<"unlock", SnapshotsMu>> >>

\* DetectLeaks, ActiveSnapshotCount: snapshotsMu around the scan of the map
DetectLeaksLocks == Locked(SnapshotsMu)

\* the operations a thread may call
LockPrograms ==
    {AcquireLocks, ReleaseLocks, UpdateGenerationPanicLocks,
     SegmentRefCountLocks, DetectLeaksLocks}
      \cup {ReclaimableLocks(c) : c \in SUBSET LockIds}
      \cup {UpdateGenerationLocks(f, l) :
              f \in SUBSET LockIds, l \in SUBSET LockIds}

Busy(t) == lprog[t] # <<>>
NextOp(t) == Head(lprog[t])
WriteHolders(l) == {t \in Threads : <<"w", l>> \in lheld[t]}
ReadHolders(l) == {t \in Threads : <<"r", l>> \in lheld[t]}
\* writers that have announced themselves and wait for the lock
PendingWriters(l) ==
    {t \in Threads : Busy(t) /\ NextOp(t) = <<"lock", l>>
                       /\ l = GenerationMu}

LockFrame == UNCHANGED <<snapVars, diskVars, instVars, auxVars>>

\* a thread calls an operation of the manager
Call(t, ops) ==
    /\ ~Busy(t)
    /\ lprog' = [lprog EXCEPT ![t] = ops]
    /\ UNCHANGED lheld
    /\ LockFrame

\* RWMutex.Lock, first half: from now on new readers wait
RWLockAnnounce(t) ==
    /\ Busy(t) /\ NextOp(t)[1] = "announce"
    /\ lprog' = [lprog EXCEPT ![t] = Tail(@)]
    /\ UNCHANGED lheld
    /\ LockFrame

\* Mutex.Lock, or RWMutex.Lock second half: no holder of any kind
MutexLock(t) ==
    /\ Busy(t) /\ NextOp(t)[1] = "lock"
    /\ WriteHolders(NextOp(t)[2]) = {}
    /\ ReadHolders(NextOp(t)[2]) = {}
    /\ lheld' = [lheld EXCEPT ![t] = @ \cup {<<"w", NextOp(t)[2]>>}]
    /\ lprog' = [lprog EXCEPT ![t] = Tail(@)]
    /\ LockFrame

MutexUnlock(t) ==
    /\ Busy(t) /\ NextOp(t)[1] = "unlock"
    /\ lheld' = [lheld EXCEPT ![t] = @ \ {<<"w", NextOp(t)[2]>>}]
    /\ lprog' = [lprog EXCEPT ![t] = Tail(@)]
    /\ LockFrame

\* RWMutex.RLock: waits while a writer holds the lock or is pending
RWRLock(t) ==
    /\ Busy(t) /\ NextOp(t)[1] = "rlock"
    /\ WriteHolders(NextOp(t)[2]) = {}
    /\ PendingWriters(NextOp(t)[2]) = {}
    /\ lheld' = [lheld EXCEPT ![t] = @ \cup {<<"r", NextOp(t)[2]>>}]
    /\ lprog' = [lprog EXCEPT ![t] = Tail(@)]
    /\ LockFrame

RWRUnlock(t) ==
    /\ Busy(t) /\ NextOp(t)[1] = "runlock"
    /\ lheld' = [lheld EXCEPT ![t] = @ \ {<<"r", NextOp(t)[2]>>}]
    /\ lprog' = [lprog EXCEPT ![t] = Tail(@)]
    /\ LockFrame

\* thread t can take its next step
CanStep(t) ==
    /\ Busy(t)
    /\ CASE NextOp(t)[1] = "lock" ->
              WriteHolders(NextOp(t)[2]) = {} /\ ReadHolders(NextOp(t)[2]) = {}
         [] NextOp(t)[1] = "rlock" ->
              WriteHolders(NextOp(t)[2]) = {} /\ PendingWriters(NextOp(t)[2]) = {}
         [] OTHER -> TRUE

\* C17: no operation of the snapshot manager acquires the generation lock
\* while holding the active-snapshots mutex or a SegmentRef mutex, nor the
\* active-snapshots mutex while holding a SegmentRef mutex; and no
\* interleaving of Acquire, Release, UpdateGeneration, Reclaimable,
\* SegmentRefCount and DetectLeaks deadlocks.
C17_LockOrderNoDeadlock ==
    /\ \A t \in Threads :
         (Busy(t) /\ NextOp(t)[1] \in {"announce", "lock", "rlock"}) =>
            \A h \in lheld[t] : LockRank(h[2]) < LockRank(NextOp(t)[2])
    /\ (\E t \in Threads : Busy(t)) => \E t \in Threads : CanStep(t)

\* C17 witness: UpdateGeneration holds the generation lock and a SegmentRef
\* mutex while another thread waits to read-lock the generation
C17_Witness ==
    \E t \in Threads, u \in Threads, id \in LockIds :
        /\ t # u
        /\ {<<"w", GenerationMu>>, <<"w", RefMu(id)>>} \subseteq lheld[t]
        /\ Busy(u) /\ NextOp(u) = <<"rlock", GenerationMu>>
        /\ ~CanStep(u)

NextLock ==
    \/ \E t \in Threads, ops \in LockPrograms : Call(t, ops)
    \/ \E t \in Threads : RWLockAnnounce(t)
    \/ \E t \in Threads : MutexLock(t)
    \/ \E t \in Threads : MutexUnlock(t)
    \/ \E t \in Threads : RWRLock(t)
    \/ \E t \in Threads : RWRUnlock(t)

InitLock == SnapIdle /\ DiskInit /\ InstInit /\ LockInit /\ AuxInit

SpecLock == InitLock /\ [][NextLock]_vars

(***************************************************************************)
(* internal/storage, internal/index: atomic writes and crashes             *)
(***************************************************************************)
FsFrame == UNCHANGED <<coreVars, codecVars, iterVars, topkVars, levVars, dfaVars, ctxVars, rewriteVars, writerVars>>

\* no such file
Absent == [ver |-> 0, len |-> 0]

\* os.ReadFile(path): what a reader finds at path
ReadFile(path) ==
    IF dirCache[path] = 0 THEN Absent
    ELSE [ver |-> inodes[dirCache[path]].ver, len |-> inodes[dirCache[path]].len]

\* what is durably recorded at path
DurableFile(path) ==
    IF dirDisk[path] = 0 THEN Absent
    ELSE [ver |-> inodes[dirDisk[path]].dver, len |-> inodes[dirDisk[path]].dlen]

\* the whole data of write v
Complete(v) == [ver |-> v, len |-> DataLen]

\* an fsync that makes nothing durable
FsyncNothing(n) == n

\* File.Sync: everything written to the inode is durable
Fsync(n) == [n EXCEPT !.dver = n.ver, !.dlen = n.len]

\* inodes no directory entry refers to are freed
Collect(ino, cache, disk) ==
    [i \in InodeIds |->
       IF \E p \in Paths : cache[p] = i \/ disk[p] = i THEN ino[i] ELSE NoInode]

\* AtomicWriteFile's deferred os.Remove(tmpPath) when it fails; the writers
\* built on WriteFileSync leave their temporary file
RemoveOnError(dir, kind, ino) ==
    IF kind = "AtomicWriteFile" /\ dir[TmpPath(kind)] = ino
    THEN [dir EXCEPT ![TmpPath(kind)] = 0]
    ELSE dir

\* the write returns an error
WriteFails(ino, cache) ==
    /\ dirCache' = RemoveOnError(cache, aw.kind, aw.ino)
    /\ inodes' = Collect(ino, dirCache', dirDisk)
    /\ aw' = IdleWrite
    /\ awRet' = [status |-> "error", kind |-> aw.kind, pc |-> aw.pc]
    /\ UNCHANGED <<dirDisk, nWrites, nCrashes>>

\* os.CreateTemp(tmpDir, "atomic-*") creates a file of a new name;
\* WriteFileSync opens its fixed path with O_CREATE|O_TRUNC
WriteOpen(kind, ok) ==
    /\ aw.pc = "idle"
    /\ nWrites < MaxWrites
    /\ LET v == nWrites + 1
           t == TmpPath(kind)
           fresh == kind = "AtomicWriteFile" \/ dirCache[t] = 0
           i == IF fresh THEN v ELSE dirCache[t]
       IN IF ok
          THEN /\ dirCache' = [dirCache EXCEPT ![t] = i]
               /\ inodes' = Collect([inodes EXCEPT ![i] =
                                       IF fresh THEN [NoInode EXCEPT !.ver = v]
                                       ELSE [@ EXCEPT !.ver = v, !.len = 0]],
                                    dirCache', dirDisk)
               /\ aw' = [kind |-> kind, pc |-> "write", ino |-> i, ver |-> v,
                         before |-> ReadFile(FinalPath(kind))]
               /\ nWrites' = v
               /\ UNCHANGED <<dirDisk, awRet, nCrashes>>
          ELSE /\ awRet' = [status |-> "error", kind |-> kind, pc |-> "idle"]
               /\ UNCHANGED <<dirCache, dirDisk, inodes, aw, nWrites, nCrashes>>
    /\ FsFrame

\* File.Write(data), one byte of it at a time
WriteData(ok) ==
    /\ aw.pc = "write"
    /\ IF ok
       THEN /\ inodes' = [inodes EXCEPT ![aw.ino].len = @ + 1]
            /\ aw' = [aw EXCEPT !.pc = IF inodes'[aw.ino].len = DataLen
                                        THEN "sync" ELSE "write"]
            /\ UNCHANGED <<dirCache, dirDisk, awRet, nWrites, nCrashes>>
       ELSE WriteFails(inodes, dirCache)
    /\ FsFrame

\* File.Sync, File.Close of the temporary file
WriteSync(ok) ==
    /\ aw.pc = "sync"
    /\ IF ok
       THEN /\ inodes' = [inodes EXCEPT ![aw.ino] = Fsync(@)]
            /\ aw' = [aw EXCEPT !.pc = "rename"]
            /\ UNCHANGED <<dirCache, dirDisk, awRet, nWrites, nCrashes>>
       ELSE WriteFails(inodes, dirCache)
    /\ FsFrame

\* os.Rename(tmpPath, finalPath)
WriteRename(ok) ==
    /\ aw.pc = "rename"
    /\ IF ok
       THEN /\ dirCache' = [dirCache EXCEPT ![FinalPath(aw.kind)] = aw.ino,
                                             ![TmpPath(aw.kind)] = 0]
            /\ inodes' = Collect(inodes, dirCache', dirDisk)
            /\ aw' = [aw EXCEPT !.pc = "fsyncdir"]
            /\ UNCHANGED <<dirDisk, awRet, nWrites, nCrashes>>
       ELSE WriteFails(inodes, dirCache)
    /\ FsFrame

\* FsyncDir(parent of finalPath): the rename is durable; return nil
WriteFsyncDir(ok) ==
    /\ aw.pc = "fsyncdir"
    /\ IF ok
       THEN /\ dirDisk' = [dirDisk EXCEPT ![FinalPath(aw.kind)] = aw.ino,
                                           ![TmpPath(aw.kind)] = 0]
            /\ inodes' = Collect(inodes, dirCache, dirDisk')
            /\ aw' = IdleWrite
            /\ awRet' = [status |-> "ok", kind |-> aw.kind, pc |-> aw.pc]
            /\ UNCHANGED <<dirCache, nWrites, nCrashes>>
       ELSE WriteFails(inodes, dirCache)
    /\ FsFrame

\* the directory trees a crash can leave: of each entry either the durable
\* or the latest state, a rename being applied as a whole (no file under
\* two names)
CrashDirs ==
    {d \in {[p \in Paths |-> IF p \in latest THEN dirCache[p] ELSE dirDisk[p]] :
               latest \in SUBSET Paths} :
        \A k \in WriteKinds :
           d[FinalPath(k)] = 0 \/ d[FinalPath(k)] # d[TmpPath(k)]}

\* the contents a crash can leave in an inode: the durable content, or what
\* was written, cut anywhere behind the durable part
CrashContents(n) ==
    {[ver |-> n.dver, len |-> n.dlen, dver |-> n.dver, dlen |-> n.dlen]} \cup
    {[ver |-> n.ver, len |-> k, dver |-> n.ver, dlen |-> k] :
        k \in (IF n.dver = n.ver THEN n.dlen ELSE 0)..n.len}

\* inodes with content that is not durable
Dirty ==
    {i \in InodeIds :
        inodes[i].dver # inodes[i].ver \/ inodes[i].dlen # inodes[i].len}

\* the process dies at any point; the machine comes back with what the disk
\* holds
FsCrash ==
    /\ nCrashes < MaxCrashes
    /\ nCrashes' = nCrashes + 1
    /\ \E d \in CrashDirs :
         \E c \in [Dirty -> UNION {CrashContents(inodes[i]) : i \in Dirty}] :
           /\ \A i \in Dirty : c[i] \in CrashContents(inodes[i])
           /\ dirCache' = d
           /\ dirDisk' = d
           /\ inodes' = Collect([i \in InodeIds |->
                                   IF i \in Dirty THEN c[i] ELSE inodes[i]],
                                d, d)
    /\ aw' = IdleWrite
    /\ awRet' = [status |-> "crashed", kind |-> aw.kind, pc |-> aw.pc]
    /\ UNCHANGED nWrites
    /\ FsFrame

\* what a reader may find at a path: nothing or the whole data of a write
Whole(c) == c = Absent \/ c.len = DataLen

\* the process dies during an atomic write
CrashInWrite == aw.pc # "idle" /\ awRet'.status = "crashed"

NextFs ==
    \/ \E k \in WriteKinds, ok \in BOOLEAN : WriteOpen(k, ok)
    \/ \E ok \in BOOLEAN : WriteData(ok)
    \/ \E ok \in BOOLEAN : WriteSync(ok)
    \/ \E ok \in BOOLEAN : WriteRename(ok)
    \/ \E ok \in BOOLEAN : WriteFsyncDir(ok)
    \/ FsCrash

InitFs == SnapIdle /\ DiskInit /\ InstInit /\ LockInit /\ AuxInit

SpecFs == InitFs /\ [][NextFs]_vars

(***************************************************************************)
(* internal/index: manifest bytes                                          *)
(***************************************************************************)
CodecFrame == UNCHANGED <<coreVars, fsVars, iterVars, topkVars, levVars, dfaVars, ctxVars, rewriteVars, writerVars>>

\* the values of Manifest.Generation that are marshalled
CodecVals == 0..MaxCodecVal

\* decimal digits
DigitChars == <<"0", "1", "2", "3", "4", "5", "6", "7", "8", "9">>

\* strconv of a small number, and back
Digit(n) == DigitChars[n + 1]

IsDigit(b) == \E n \in CodecVals : Digit(n) = b

ValueOf(b) == CHOOSE n \in CodecVals : Digit(n) = b

\* bytes that encoding/json skips between tokens
Whitespace == {"SP", "LF", "TAB"}

\* object keys: the field names "generation" (g) and "checksum" (c) as
\* written, in another case (G, C), and a name no field has (x)
KeyChars == {"g", "G", "c", "C", "x"}

\* the bytes a file may hold
Bytes == {"{", "}", ":", ","} \cup Whitespace \cup KeyChars
           \cup {Digit(n) : n \in CodecVals}

\* storage.ComputeChecksum over the manifest marshalled with an empty
\* checksum field: a digest, distinct for distinct manifests
ComputeManifestChecksum(g) == (g + 1) % (MaxCodecVal + 1)

\* json.MarshalIndent(m, "", "  ") with m.Checksum set
MarshalManifest(g) ==
    <<"{", "LF",
      "SP", "SP", "g", ":", "SP", Digit(g), ",", "LF",
      "SP", "SP", "c", ":", "SP", Digit(ComputeManifestChecksum(g)), "LF",
      "}">>

\* the tokens of a byte sequence
Tokens(data) == SelectSeq(data, LAMBDA b : b \notin Whitespace)

\* the fields set by members 1..n of an object: encoding/json matches keys
\* to fields without regard to case, ignores unknown keys, lets a later
\* member overwrite an earlier one; -1 stands for the empty checksum
RECURSIVE Fields(_, _)
Fields(t, n) ==
    IF n = 0 THEN [g |-> 0, c |-> -1]
    ELSE LET f == Fields(t, n - 1)
             k == t[4 * n - 2]
             v == ValueOf(t[4 * n])
         IN CASE k \in {"g", "G"} -> [f EXCEPT !.g = v]
              [] k \in {"c", "C"} -> [f EXCEPT !.c = v]
              [] OTHER -> f

\* json.Unmarshal(data, &m): an object of key:value members
JsonUnmarshal(data) ==
    LET t == Tokens(data)
        n == Len(t) \div 4
    IN IF /\ Len(t) >= 2
          /\ t[1] = "{" /\ t[Len(t)] = "}"
          /\ (Len(t) = 2 \/ Len(t) % 4 = 1)
          /\ \A i \in 1..n :
               /\ t[4 * i - 2] \in KeyChars
               /\ t[4 * i - 1] = ":"
               /\ IsDigit(t[4 * i])
               /\ (i < n => t[4 * i + 1] = ",")
       THEN [ok |-> TRUE, m |-> Fields(t, IF Len(t) = 2 THEN 0 ELSE n)]
       ELSE [ok |-> FALSE, m |-> [g |-> 0, c |-> -1]]

\* UnmarshalManifest: json.Unmarshal, then compare the stored checksum with
\* the one computed from the decoded manifest
UnmarshalManifest(data) ==
    LET p == JsonUnmarshal(data)
    IN IF ~p.ok THEN [status |-> "unmarshal error", generation |-> 0]
       ELSE IF ComputeManifestChecksum(p.m.g) # p.m.c
            THEN [status |-> "ErrManifestCorrupt", generation |-> 0]
            ELSE [status |-> "ok", generation |-> p.m.g]

\* the positions of a marshalled manifest
Positions == DOMAIN MarshalManifest(0)

\* data, _ := MarshalManifest(m)
Marshal(g) ==
    /\ cdoc' = g
    /\ cdata' = MarshalManifest(g)
    /\ ctampered' = 0
    /\ cret' = [status |-> "none", generation |-> 0]
    /\ CodecFrame

\* one byte of the marshalled bytes is replaced by another
TamperByte(i, b) ==
    /\ cdata # <<>> /\ ctampered = 0
    /\ i \in DOMAIN cdata
    /\ b # cdata[i]
    /\ cdata' = [cdata EXCEPT ![i] = b]
    /\ ctampered' = i
    /\ cret' = [status |-> "none", generation |-> 0]
    /\ UNCHANGED cdoc
    /\ CodecFrame

\* _, err = UnmarshalManifest(data)
Unmarshal ==
    /\ cdata # <<>>
    /\ cret' = UnmarshalManifest(cdata)
    /\ UNCHANGED <<cdoc, cdata, ctampered>>
    /\ CodecFrame

\* C23 (as claimed): unmarshalling the marshalled bytes of a manifest with
\* any single byte modified fails (with ManifestCorrupt); it never succeeds.
C23_TamperedNeverLoads == ctampered # 0 => cret.status # "ok"

NextCodec ==
    \/ \E g \in CodecVals : Marshal(g)
    \/ \E i \in Positions, b \in Bytes : TamperByte(i, b)
    \/ Unmarshal

InitCodec == SnapIdle /\ DiskInit /\ InstInit /\ LockInit /\ AuxInit

SpecCodec == InitCodec /\ [][NextCodec]_vars

(***************************************************************************)
(* internal/engine: calls on a postings iterator                           *)
(***************************************************************************)
IterFrame == UNCHANGED <<coreVars, fsVars, codecVars, topkVars, levVars, dfaVars, ctxVars, rewriteVars, writerVars>>

\* the caller notes the result of a call
Called(r) ==
    /\ it' = r.it
    /\ emitted' = IF r.ok THEN Append(emitted, ItDocID(r.it)) ELSE emitted
    /\ falses' = IF r.ok THEN falses ELSE falses + 1
    /\ UNCHANGED idesc

\* it.Next(), then it.DocID() if it returned true
CallNext ==
    /\ falses < MaxFalse
    /\ Called(ItNext(it))
    /\ UNCHANGED advanced
    /\ IterFrame

\* it.Advance(target) with target above the current doc id, then it.DocID()
CallAdvance(target) ==
    /\ falses = 0
    /\ emitted # <<>> => target > emitted[Len(emitted)]
    /\ Called(ItAdvance(it, target))
    /\ advanced' = TRUE
    /\ IterFrame

\* s is the beginning of t
IsPrefix(s, t) == Len(s) <= Len(t) /\ \A i \in DOMAIN s : s[i] = t[i]

\* Next calls alone have emitted the doc ids of S in ascending order, all of
\* them once a call has returned false
EmitsExactly(S) ==
    /\ IsPrefix(emitted, Ascending(S))
    /\ falses > 0 => emitted = Ascending(S)

\* C24 (as claimed): repeated Next on a conjunction of two or more children
\* (slices, disjunctions, nested conjunctions) emits the intersection of
\* their doc-id sets, each doc id once, ascending, and then returns false.
C24_ConjunctionEmitsIntersection ==
    (idesc.type = "conj" /\ ~advanced) => EmitsExactly(DocSet(idesc))

\* C25: repeated Next on a disjunction emits the union of the children's
\* doc-id sets in ascending order, each doc id once however many children
\* hold it, and then returns false.
C25_DisjunctionEmitsUnion ==
    (idesc.type = "disj" /\ ~advanced) => EmitsExactly(DocSet(idesc))

\* a disjunction of a slice and a nested disjunction that all hold one doc
\* id has emitted its union and returned false twice
C25_Witness ==
    /\ idesc.type = "disj" /\ ~advanced
    /\ falses = MaxFalse
    /\ Len(emitted) >= 2
    /\ \E x \in DocIds : \A i \in DOMAIN idesc.kids : x \in DocSet(idesc.kids[i])
    /\ \E i \in DOMAIN idesc.kids : idesc.kids[i].type = "disj"

\* C26 (as claimed): for every iterator and every sequence of Next and
\* Advance(t) calls with each t above the current doc id, the doc ids
\* reported after the successful calls are strictly ascending.
C26_ReportedStrictlyAscending ==
    \A i \in DOMAIN emitted : i > 1 => emitted[i - 1] < emitted[i]

NextIter ==
    \/ CallNext
    \/ \E target \in DocIds : CallAdvance(target)

InitIter ==
    SnapIdle /\ DiskInit /\ InstInit /\ LockInit /\ FsInit /\ CodecInit /\ IterInit /\ TopKIdle /\ LevIdle /\ DfaIdle /\ CtxInit /\ RewriteIdle /\ WriterIdle

SpecIter == InitIter /\ [][NextIter]_vars

(***************************************************************************)
(* internal/engine: TopKCollector on a scoreHeap                           *)
(***************************************************************************)
TopKFrame == UNCHANGED <<coreVars, fsVars, codecVars, iterVars, levVars, dfaVars, ctxVars, rewriteVars, writerVars>>

\* the scores documents are collected with
Scores == 0..MaxScore

ScoredDoc(docID, score) == [docID |-> docID, score |-> score]

\* scoreHeap.Swap
HeapSwap(h, i, j) == [h EXCEPT ![i] = h[j], ![j] = h[i]]

\* container/heap up: move entry j towards the root while it is less than
\* its parent (scoreHeap.Less compares scores)
RECURSIVE HeapUp(_, _)
HeapUp(h, j) ==
    IF j = 1 \/ ~(h[j].score < h[j \div 2].score) THEN h
    ELSE HeapUp(HeapSwap(h, j \div 2, j), j \div 2)

\* container/heap down: move entry i away from the root, among the first n
\* entries, while its smaller child is less than it
RECURSIVE HeapDown(_, _, _)
HeapDown(h, i, n) ==
    IF 2 * i > n THEN h
    ELSE LET j == IF 2 * i + 1 <= n /\ h[2 * i + 1].score < h[2 * i].score
                  THEN 2 * i + 1 ELSE 2 * i
         IN IF ~(h[j].score < h[i].score) THEN h
            ELSE HeapDown(HeapSwap(h, i, j), j, n)

\* heap.Push: append, then up
HeapPush(h, x) == HeapUp(Append(h, x), Len(h) + 1)

\* a heap left as it is
HeapFixNothing(h, i) == h

\* heap.Fix(h, i): down, and up if the entry did not move down
HeapFix(h, i) ==
    IF HeapDown(h, i, Len(h)) # h THEN HeapDown(h, i, Len(h)) ELSE HeapUp(h, i)

\* heap.Pop: swap root and last entry, down from the root among the others,
\* take the last entry off
HeapPopMin(h) ==
    LET s == HeapDown(HeapSwap(h, 1, Len(h)), 1, Len(h) - 1)
    IN [x |-> s[Len(s)], h |-> SubSeq(s, 1, Len(s) - 1)]

\* the score of the last entry of the heap
LastScore(h) == h[Len(h)].score

\* c.h[0].Score
RootScore(h) == h[1].score

\* score > c.minScore
Qualifies(c, score) == score > c.minScore

\* TopKCollector.Collect
CollectInto(c, docID, score) ==
    IF Len(c.h) < c.k
    THEN LET h == HeapPush(c.h, ScoredDoc(docID, score))
         IN [c EXCEPT !.h = h,
                      !.minScore = IF Len(h) = c.k THEN RootScore(h) ELSE @]
    ELSE IF Qualifies(c, score)
         THEN LET h == HeapFix([c.h EXCEPT ![1] = ScoredDoc(docID, score)], 1)
              IN [c EXCEPT !.h = h, !.minScore = RootScore(h)]
         ELSE c

\* popping into the result from the front
RECURSIVE PopAllAscending(_)
PopAllAscending(h) ==
    IF h = <<>> THEN <<>>
    ELSE <<HeapPopMin(h).x>> \o PopAllAscending(HeapPopMin(h).h)

\* the loop of Results: result[i] = heap.Pop(&c.h) for i from the last index
\* down to the first
RECURSIVE PopAll(_)
PopAll(h) ==
    IF h = <<>> THEN <<>>
    ELSE PopAll(HeapPopMin(h).h) \o <<HeapPopMin(h).x>>

\* c.Collect(docID, score) in the scoring loop of a search, which runs before
\* the collector's results are taken; documents are numbered as they are
\* collected
TopKCollect(score) ==
    /\ resultsCalls = 0
    /\ Len(collected) < MaxCollects
    /\ tk' = CollectInto(tk, Len(collected) + 1, score)
    /\ collected' = Append(collected, ScoredDoc(Len(collected) + 1, score))
    /\ UNCHANGED <<tkRet, resultsCalls>>
    /\ TopKFrame

\* c.Results(), called once when the scoring loop is over: the loop of
\* Results empties the heap
Results ==
    /\ resultsCalls = 0
    /\ tkRet' = [n |-> Len(collected), docs |-> PopAll(tk.h)]
    /\ tk' = [tk EXCEPT !.h = <<>>]
    /\ resultsCalls' = resultsCalls + 1
    /\ UNCHANGED collected
    /\ TopKFrame

\* c.MinScore()
MinScore == tk.minScore

\* the scores of a sequence of documents
ScoresOf(docs) == [i \in DOMAIN docs |-> docs[i].score]

\* a sequence of scores in descending order
RECURSIVE SortDescending(_)
SortDescending(s) ==
    IF s = <<>> THEN <<>>
    ELSE LET i == CHOOSE a \in DOMAIN s : \A b \in DOMAIN s : s[a] >= s[b]
         IN <<s[i]>> \o SortDescending([k \in 1..(Len(s) - 1) |->
                                          IF k < i THEN s[k] ELSE s[k + 1]])

Least(a, b) == IF a < b THEN a ELSE b

\* the first call of Results, only Collect calls before it
FirstResults == resultsCalls = 0 /\ resultsCalls' = 1

\* C27: after any n Collect calls on a collector for K >= 1 documents,
\* Results returns min(K, n) of the collected documents, sorted by
\* descending score, whose scores are the min(K, n) highest scores collected.
C27_ResultsAreTopK ==
    [][FirstResults =>
         /\ Len(tkRet'.docs) = Least(tk.k, Len(collected))
         /\ \A i \in DOMAIN tkRet'.docs :
              \E j \in DOMAIN collected : tkRet'.docs[i] = collected[j]
         /\ ScoresOf(tkRet'.docs) =
              SubSeq(SortDescending(ScoresOf(collected)), 1,
                     Least(tk.k, Len(collected)))]_vars

\* Results has returned K >= 2 documents out of more than K collected, of
\* which a later one displaced an earlier one and two had the same score
C27_Witness ==
    /\ resultsCalls = 1 /\ tkRet.n = Len(collected)
    /\ tk.k >= 2 /\ tkRet.n > tk.k /\ Len(tkRet.docs) = tk.k
    /\ \E i \in DOMAIN tkRet.docs : tkRet.docs[i].docID > tk.k
    /\ \E i, j \in DOMAIN collected :
         i # j /\ collected[i].score = collected[j].score

\* C28: MinScore is 0 while fewer than K documents have been collected, and
\* from the K-th Collect on it is the smallest score retained in the heap.
C28_MinScoreIsThreshold ==
    resultsCalls = 0 =>
       IF Len(collected) < tk.k THEN MinScore = 0
       ELSE /\ Len(tk.h) = tk.k
            /\ \E i \in DOMAIN tk.h : tk.h[i].score = MinScore
            /\ \A i \in DOMAIN tk.h : tk.h[i].score >= MinScore

\* more than K documents were collected, the threshold is above 0 and below
\* the highest retained score, and the last document was not admitted
C28_Witness ==
    /\ resultsCalls = 0 /\ tk.k >= 2 /\ Len(collected) > tk.k
    /\ MinScore > 0
    /\ \E i \in DOMAIN tk.h : tk.h[i].score > MinScore
    /\ \A i \in DOMAIN tk.h : tk.h[i].docID # Len(collected)

\* the collect sequence (1,1.0), (2,3.0), (3,2.0), (4,5.0), (5,4.0)
Scenario ==
    <<ScoredDoc(1, 1), ScoredDoc(2, 3), ScoredDoc(3, 2), ScoredDoc(4, 5),
      ScoredDoc(5, 4)>>

\* K = 3 and the first n collects of the scenario were made, and no other
\* call
ScenarioAfter(n) ==
    tk.k = 3 /\ resultsCalls = 0 /\ collected = SubSeq(Scenario, 1, n)

\* Results was called after the five collects of the scenario, with K = 3
ScenarioResults ==
    tk.k = 3 /\ resultsCalls = 1 /\ collected = Scenario /\ tkRet.n = 5

\* C29 (as claimed): in the scenario MinScore is 3.0 after the fourth
\* collect and 4.0 after the fifth, and Results is [(4,5.0), (5,4.0), (2,3.0)].
C29_ScenarioAsClaimed ==
    /\ ScenarioAfter(4) => MinScore = 3
    /\ ScenarioAfter(5) => MinScore = 4
    /\ ScenarioResults =>
         tkRet.docs = <<ScoredDoc(4, 5), ScoredDoc(5, 4), ScoredDoc(2, 3)>>

\* C29 (amended): in the scenario MinScore is 2.0 after the fourth collect
\* and 3.0 after the fifth, and Results is [(4,5.0), (5,4.0), (2,3.0)].
C29_ScenarioAmended ==
    /\ ScenarioAfter(4) => MinScore = 2
    /\ ScenarioAfter(5) => MinScore = 3
    /\ ScenarioResults =>
         tkRet.docs = <<ScoredDoc(4, 5), ScoredDoc(5, 4), ScoredDoc(2, 3)>>

\* the scenario has run to its end and Results was called
C29_Witness == ScenarioResults /\ tk.minScore = 3 /\ Len(tkRet.docs) = 3

NextTopK ==
    \/ \E score \in Scores : TopKCollect(score)
    \/ Results

InitTopK ==
    SnapIdle /\ DiskInit /\ InstInit /\ LockInit /\ FsInit /\ CodecInit /\ IterIdle /\ TopKInit /\ LevIdle /\ DfaIdle /\ CtxInit /\ RewriteIdle /\ WriterIdle

SpecTopK == InitTopK /\ [][NextTopK]_vars

(***************************************************************************)
(* internal/automaton: stepping a LevenshteinAutomaton                     *)
(***************************************************************************)
LevFrame == UNCHANGED <<coreVars, fsVars, codecVars, iterVars, topkVars, dfaVars, ctxVars, rewriteVars, writerVars>>

\* bestState(states...): the first of the live states with the greatest
\* position, DeadState if none is live
RECURSIVE BestFrom(_, _, _, _)
BestFrom(a, states, best, bestPos) ==
    IF states = <<>> THEN best
    ELSE IF Head(states) # DeadState
            /\ DecodeState(a, Head(states)).pos > bestPos
         THEN BestFrom(a, Tail(states), Head(states),
                       DecodeState(a, Head(states)).pos)
         ELSE BestFrom(a, Tail(states), best, bestPos)

BestState(a, states) == BestFrom(a, states, DeadState, -1)

\* Step(state, b); target[pos] of the code is a.target[pos + 1] here
Step(a, state, b) ==
    IF state = DeadState THEN DeadState
    ELSE LET pos == DecodeState(a, state).pos
             editsUsed == DecodeState(a, state).editsUsed
             substState == EncodeState(a, pos + 1, editsUsed + 1)
             insertState == EncodeState(a, pos, editsUsed + 1)
         IN IF pos >= Len(a.target)
            THEN IF editsUsed + 1 > a.maxDist THEN DeadState
                 ELSE EncodeState(a, pos, editsUsed + 1)
            ELSE IF b = a.target[pos + 1]
            THEN EncodeState(a, pos + 1, editsUsed)
            ELSE IF editsUsed >= a.maxDist THEN DeadState
            ELSE IF pos + 1 < Len(a.target) /\ b = a.target[pos + 2]
            THEN BestState(a, <<substState, insertState,
                                EncodeState(a, pos + 2, editsUsed + 1)>>)
            ELSE BestState(a, <<substState, insertState, DeadState>>)

\* every live state accepts
AcceptsLive(a, state) == state # DeadState

\* IsAccept(state)
IsAccept(a, state) ==
    /\ state # DeadState
    /\ Len(a.target) - DecodeState(a, state).pos
         <= a.maxDist - DecodeState(a, state).editsUsed

\* state = a.Step(state, b) for the next byte of an input
LevStep(b) ==
    /\ Len(levInput) < MaxInputLen
    /\ levState' = Step(lev, levState, b)
    /\ levInput' = Append(levInput, b)
    /\ UNCHANGED lev
    /\ LevFrame

\* the Levenshtein distance of two byte strings: the least number of
\* insertions, deletions and substitutions of one byte that turn s into t
RECURSIVE Distance(_, _)
Distance(s, t) ==
    IF s = <<>> THEN Len(t)
    ELSE IF t = <<>> THEN Len(s)
    ELSE IF Head(s) = Head(t) THEN Distance(Tail(s), Tail(t))
    ELSE 1 + Least(Distance(Tail(s), Tail(t)),
                   Least(Distance(Tail(s), t), Distance(s, Tail(t))))

\* C30: every byte string within Levenshtein distance max_dist of the target
\* is accepted: stepping through it from Start never reaches DeadState and
\* ends in an accepting state (DeadState is absorbing, so a run that ends
\* live never reached it).
C30_AcceptsAllWithinDistance ==
    Distance(levInput, lev.target) <= lev.maxDist =>
       levState # DeadState /\ IsAccept(lev, levState)

\* C31: the automaton accepts no byte string whose Levenshtein distance to
\* the target exceeds max_dist, and with max_dist = 0 it accepts the target
\* and nothing else.
C31_AcceptsOnlyWithinDistance ==
    /\ IsAccept(lev, levState) =>
         Distance(levInput, lev.target) <= lev.maxDist
    /\ lev.maxDist = 0 =>
         (IsAccept(lev, levState) <=> levInput = lev.target)

\* an input of two or more bytes was accepted at the full distance 2
C31_Witness ==
    /\ lev.maxDist = 2 /\ Len(lev.target) >= 2 /\ Len(levInput) >= 2
    /\ Distance(levInput, lev.target) = 2 /\ IsAccept(lev, levState)

NextLev == \E b \in LevBytes : LevStep(b)

InitLev ==
    SnapIdle /\ DiskInit /\ InstInit /\ LockInit /\ FsInit /\ CodecInit /\ IterIdle /\ TopKIdle /\ LevInit /\ DfaIdle /\ CtxInit /\ RewriteIdle /\ WriterIdle

SpecLev == InitLev /\ [][NextLev]_vars

(***************************************************************************)
(* internal/automaton: buildWildcardNFA, subsetConstruct                   *)
(***************************************************************************)
DfaFrame == UNCHANGED <<coreVars, fsVars, codecVars, iterVars, topkVars, levVars, ctxVars, rewriteVars, writerVars>>

\* the bytes stepped, in the order of the loop for b := 0; b < 256; b++;
\* "b" stands for every byte that no pattern holds
WildBytes == <<"a", "b">>

\* the bytes of a pattern
PatternBytes == {"a", "*", "?"}

\* the state s of buildWildcardNFA(pattern): the round of the loop for the
\* pattern byte s, if it is `*`, gives s a loop on every byte; the round for
\* the pattern byte s + 1 gives s an edge to s + 1, an epsilon edge for `*`,
\* an edge on every byte for `?` and an edge on the byte itself otherwise
NFAState(pattern, s) ==
    LET loop == IF s >= 1 /\ pattern[s] = "*" THEN {s} ELSE {}
        next(b) == IF s < Len(pattern) /\ pattern[s + 1] \in {"?", b}
                   THEN {s + 1} ELSE {}
    IN [transitions |-> [b \in Range(WildBytes) |-> loop \cup next(b)],
        epsilon |-> IF s < Len(pattern) /\ pattern[s + 1] = "*"
                    THEN {s + 1} ELSE {}]

\* buildWildcardNFA(pattern): state s is states[s + 1], the last state accepts
BuildWildcardNFA(pattern) ==
    [states |-> [i \in 1..(Len(pattern) + 1) |-> NFAState(pattern, i - 1)],
     accepting |-> Len(pattern)]

\* epsilonClosure(states)
RECURSIVE EpsilonClosure(_, _)
EpsilonClosure(n, states) ==
    LET more == states \cup UNION {n.states[s + 1].epsilon : s \in states}
    IN IF more = states THEN states ELSE EpsilonClosure(n, more)

\* the multiplier 2654435761 of setKey, as high * 2^20 + low
Multiplier == <<2531, 489905>>

\* the bits of a uint64 that are set below 2^40
KeyBits == 0..39

\* uint64(k)*2654435761 + uint64(k) as <<high, low>> with low below 2^20; it
\* stays below 2^40 for the states of a pattern of at most 256 bytes
KeyOfState(k) ==
    LET low == k * Multiplier[2] + k
    IN <<k * Multiplier[1] + low \div 2 ^ 20, low % 2 ^ 20>>

\* bit i of the key of state k
KeyBit(k, i) ==
    IF i < 20 THEN (KeyOfState(k)[2] \div 2 ^ i) % 2 = 1
    ELSE (KeyOfState(k)[1] \div 2 ^ (i - 20)) % 2 = 1

\* setKey(s): the exclusive or of the keys of the states of s, as the set
\* of the bits that are 1
SetKey(s) ==
    {i \in KeyBits : Cardinality({k \in s : KeyBit(k, i)}) % 2 = 1}

\* isAccepting(s)
IsAccepting(n, s) == n.accepting \in s

\* the DFA state limit of subsetConstruct
MaxDFAStates == 10000

\* the row of a new DFA state: every byte to DeadState
NewRow == [b \in Range(WildBytes) |-> DeadState]

\* setToID[key], the map being a set of <<key, id>>
IdOfKey(setToID, key) == (CHOOSE e \in setToID : e[1] = key)[2]

\* the body of the loop over b in subsetConstruct, for the bytes that are
\* left; c is the construction so far: the automaton, setToID, queue
RECURSIVE ForBytes(_, _, _, _, _)
ForBytes(n, c, currentSet, currentID, bytes) ==
    IF bytes = <<>> \/ c.dfa.err # "none" THEN c
    ELSE LET b == Head(bytes)
             moved == UNION {n.states[s + 1].transitions[b] : s \in currentSet}
             nextSet == EpsilonClosure(n, moved)
             key == SetKey(nextSet)
             newID == Len(c.dfa.transitions)
             to(id) == [c.dfa EXCEPT !.transitions[currentID + 1][b] = id]
         IN IF moved = {}
            THEN ForBytes(n, [c EXCEPT !.dfa = to(DeadState)],
                          currentSet, currentID, Tail(bytes))
            ELSE IF \E e \in c.setToID : e[1] = key
            THEN ForBytes(n, [c EXCEPT !.dfa = to(IdOfKey(c.setToID, key))],
                          currentSet, currentID, Tail(bytes))
            ELSE IF newID >= MaxDFAStates
            THEN [c EXCEPT !.dfa.err = "ErrDFAStateLimitExceeded"]
            ELSE ForBytes(n,
                   [dfa |-> [c.dfa EXCEPT
                               !.transitions =
                                  Append([@ EXCEPT ![currentID + 1][b] = newID],
                                         NewRow),
                               !.accepting = Append(@, IsAccepting(n, nextSet))],
                    setToID |-> c.setToID \cup {<<key, newID>>},
                    queue |-> Append(c.queue, <<nextSet, newID>>)],
                   currentSet, currentID, Tail(bytes))

\* subsetConstruct(n) before its loop: DFA state id is row id + 1; state 0 is
\* dead, state 1 is the start
SubsetConstructStart(pattern) ==
    LET n == BuildWildcardNFA(pattern)
        startSet == EpsilonClosure(n, {0})
    IN [dfa |-> [pattern |-> pattern,
                 transitions |-> <<NewRow, NewRow>>,
                 accepting |-> <<FALSE, IsAccepting(n, startSet)>>,
                 err |-> "none"],
        setToID |-> {<<SetKey(startSet), 1>>},
        queue |-> <<<<startSet, 1>>>>]

\* one round of the loop for len(queue) > 0 of subsetConstruct
ForQueueHead(n, c) ==
    ForBytes(n, [c EXCEPT !.queue = Tail(@)],
             Head(c.queue)[1], Head(c.queue)[2], WildBytes)

\* WildcardAutomaton.Start()
WildStart == 1

\* WildcardAutomaton.Step(state, b)
WildcardStep(a, state, b) ==
    IF state = DeadState \/ state >= Len(a.transitions) THEN DeadState
    ELSE a.transitions[state + 1][b]

\* WildcardAutomaton.IsAccept(state)
WildIsAccept(a, state) ==
    IF state = DeadState \/ state >= Len(a.accepting) THEN FALSE
    ELSE a.accepting[state + 1]

\* WildcardAutomaton.CanMatch(state)
WildCanMatch(a, state) == state # DeadState

(***************************************************************************)
(* what a wildcard pattern matches                                         *)
(***************************************************************************)
\* with i pattern bytes matched, the `*` that follow may match nothing
RECURSIVE SkipStars(_, _)
SkipStars(pattern, matched) ==
    LET more == matched \cup {i + 1 : i \in {j \in matched :
                                 j < Len(pattern) /\ pattern[j + 1] = "*"}}
    IN IF more = matched THEN matched ELSE SkipStars(pattern, more)

\* the numbers i such that the first i pattern bytes match the empty input
MatchedByEmpty(pattern) == SkipStars(pattern, {0})

\* the numbers of pattern bytes that match the input extended by byte b: a
\* `*` matched last takes b too, a `?` or the byte b itself is matched next
MatchedAfter(pattern, matched, b) ==
    SkipStars(pattern,
       {i \in matched : i >= 1 /\ pattern[i] = "*"}
       \cup {i + 1 : i \in {j \in matched :
                 j < Len(pattern) /\ pattern[j + 1] \in {"?", b}}})

\* the input matches the whole pattern
Matches(pattern, matched) == Len(pattern) \in matched

\* the patterns of at most n bytes
PatternsUpTo(n) == UNION {[1..m -> PatternBytes] : m \in 0..n}

\* the places of the `*` of a long pattern; those after the first have keys
\* whose exclusive or is 0
StarPlaces == {1, 3, 5, 6, 8, 9, 15, 16, 17, 22, 23, 25, 26, 28, 32, 33}

\* a pattern of 33 bytes: `*` at the places above, the byte a elsewhere
LongPattern == [i \in 1..33 |-> IF i \in StarPlaces THEN "*" ELSE "a"]

\* NewWildcardAutomaton(pattern) is called for a pattern of at most
\* MaxWildcardPatternLength bytes and is about to enter the loop of
\* subsetConstruct
WildInit ==
    /\ \E p \in PatternsUpTo(MaxPatternLen) \cup {LongPattern} :
         /\ wild = SubsetConstructStart(p).dfa
         /\ wbuild = [setToID |-> SubsetConstructStart(p).setToID,
                      queue |-> SubsetConstructStart(p).queue]
         /\ wMatched = MatchedByEmpty(p)
    /\ wState = WildStart
    /\ PrefixIdle
    /\ driven = "wildcard"

\* the automaton is built: the loop of subsetConstruct is over
Built == wbuild.queue = <<>> /\ wild.err = "none"

\* a round of the loop of subsetConstruct, which runs until the queue is
\* empty or the state limit is exceeded
SubsetConstruct ==
    /\ driven = "wildcard"
    /\ wbuild.queue # <<>> /\ wild.err = "none"
    /\ LET c == ForQueueHead(BuildWildcardNFA(wild.pattern),
                             [dfa |-> wild, setToID |-> wbuild.setToID,
                              queue |-> wbuild.queue])
       IN /\ wild' = c.dfa
          /\ wbuild' = [setToID |-> c.setToID, queue |-> c.queue]
    /\ UNCHANGED <<wState, wMatched, pref, pState, pInput, driven>>
    /\ DfaFrame

\* state = a.Step(state, b) for the next byte of an input, on the automaton
\* that NewWildcardAutomaton returned
WildStep(b) ==
    /\ driven = "wildcard"
    /\ Built
    /\ wState' = WildcardStep(wild, wState, b)
    /\ wMatched' = MatchedAfter(wild.pattern, wMatched, b)
    /\ UNCHANGED <<wild, wbuild, pref, pState, pInput, driven>>
    /\ DfaFrame

\* C32: the DFA built for a pattern accepts a byte string if and only if
\* the string matches the pattern, with `*` for any byte sequence, the empty
\* one included, and `?` for exactly one byte.
C32_WildcardAcceptsMatches ==
    driven = "wildcard" /\ Built =>
       (WildIsAccept(wild, wState) <=> Matches(wild.pattern, wMatched))

NextWild ==
    \/ SubsetConstruct
    \/ \E b \in Range(WildBytes) : WildStep(b)

InitWild ==
    SnapIdle /\ DiskInit /\ InstInit /\ LockInit /\ FsInit /\ CodecInit /\ IterIdle /\ TopKIdle /\ LevIdle /\ WildInit /\ CtxInit /\ RewriteIdle /\ WriterIdle

SpecWild == InitWild /\ [][NextWild]_vars

(***************************************************************************)
(* internal/automaton: PrefixAutomaton, CanMatch                           *)
(***************************************************************************)
\* PrefixAutomaton.Start(): 1 for every prefix
PrefixStart(a) == 1

\* PrefixAutomaton.Step(state, b); prefix[pos] of the code is a.prefix[pos + 1]
PrefixStepTo(a, state, b) ==
    IF state = DeadState THEN DeadState
    ELSE IF state - 1 < Len(a.prefix)
    THEN IF b = a.prefix[state] THEN state + 1 ELSE DeadState
    ELSE state

\* PrefixAutomaton.IsAccept(state)
PrefixIsAccept(a, state) ==
    IF state = DeadState THEN FALSE ELSE state - 1 >= Len(a.prefix)

\* PrefixAutomaton.CanMatch(state)
PrefixCanMatch(a, state) == state # DeadState

\* every state can match
CanMatchAlways(a, state) == TRUE

\* LevenshteinAutomaton.CanMatch(state)
LevCanMatch(a, state) == state # DeadState

\* a prefix automaton for a prefix, in its start state
PrefixInit ==
    /\ pref \in {NewPrefixAutomaton(p) : p \in BytesUpTo(MaxTargetLen)}
    /\ pState = PrefixStart(pref)
    /\ pInput = <<>>

\* state = a.Step(state, b) for the next byte of an input
PrefixStep(b) ==
    /\ driven = "prefix"
    /\ Len(pInput) < MaxInputLen
    /\ pState' = PrefixStepTo(pref, pState, b)
    /\ pInput' = Append(pInput, b)
    /\ UNCHANGED <<wild, wbuild, wState, wMatched, pref, driven>>
    /\ DfaFrame

\* state = a.Step(state, b) on the Levenshtein automaton
LevenshteinStep(b) == driven = "levenshtein" /\ LevStep(b)

\* the states that steps lead to from the states of from; steps[s] is the
\* set of the states one byte leads to from s
RECURSIVE ReachableFrom(_, _)
ReachableFrom(steps, from) ==
    LET more == from \cup UNION {steps[s] : s \in from}
    IN IF more = from THEN from ELSE ReachableFrom(steps, more)

\* the states of each automaton and the steps between them
PrefixStates == 0..(Len(pref.prefix) + 1)

PrefixSteps ==
    [s \in PrefixStates |-> {PrefixStepTo(pref, s, b) : b \in LevBytes}]

WildStates == 0..(Len(wild.transitions) - 1)

WildSteps ==
    [s \in WildStates |-> {WildcardStep(wild, s, b) : b \in Range(WildBytes)}]

LevStates == 0..((Len(lev.target) + lev.maxDist + 1) * (lev.maxDist + 1))

LevSteps == [s \in LevStates |-> {Step(lev, s, b) : b \in LevBytes}]

AutoInit ==
    \/ driven = "prefix" /\ PrefixInit /\ WildIdle /\ LevIdle
    \/ WildInit /\ LevIdle
    \/ driven = "levenshtein" /\ LevInit /\ WildIdle /\ PrefixIdle

NextAuto ==
    \/ \E b \in LevBytes : PrefixStep(b)
    \/ SubsetConstruct
    \/ \E b \in Range(WildBytes) : WildStep(b)
    \/ \E b \in LevBytes : LevenshteinStep(b)

InitAuto ==
    SnapIdle /\ DiskInit /\ InstInit /\ LockInit /\ FsInit /\ CodecInit /\ IterIdle /\ TopKIdle /\ AutoInit /\ CtxInit /\ RewriteIdle /\ WriterIdle

SpecAuto == InitAuto /\ [][NextAuto]_vars

(***************************************************************************)
(* internal/engine: ExecutionContext.CheckLimits                           *)
(***************************************************************************)
CtxFrame == UNCHANGED <<coreVars, fsVars, codecVars, iterVars, topkVars, levVars, dfaVars, rewriteVars, writerVars>>

\* the deadline passes
DeadlinePasses ==
    /\ ~pastDeadline
    /\ pastDeadline' = TRUE
    /\ UNCHANGED <<ctx, ckRet, ckClock, okRun>>
    /\ CtxFrame

\* ctx.StatesVisited++ in the caller
VisitState ==
    /\ ctx.StatesVisited < ctx.MaxStatesVisited
    /\ ctx' = [ctx EXCEPT !.StatesVisited = @ + 1]
    /\ UNCHANGED <<pastDeadline, ckRet, ckClock, okRun>>
    /\ CtxFrame

\* ctx.TermsMatched++ in the caller
MatchTerm ==
    /\ ctx.TermsMatched < ctx.MaxTermsMatched
    /\ ctx' = [ctx EXCEPT !.TermsMatched = @ + 1]
    /\ UNCHANGED <<pastDeadline, ckRet, ckClock, okRun>>
    /\ CtxFrame

\* a time check that comes one call later
DueLater(counter, interval) == counter % (interval + 1) = 0

\* ctx.checkCounter%ctx.checkInterval == 0
Due(counter, interval) == counter % interval = 0

\* CheckLimits(): what it returns, the context it leaves, whether it called
\* time.Now()
CheckLimitsOn(c, late) ==
    IF c.StatesVisited >= c.MaxStatesVisited
    THEN [ret |-> "ErrStateLimitExceeded", clock |-> FALSE,
          ctx |-> [c EXCEPT !.LimitExceeded = TRUE]]
    ELSE IF c.TermsMatched >= c.MaxTermsMatched
    THEN [ret |-> "ErrMatchLimitExceeded", clock |-> FALSE,
          ctx |-> [c EXCEPT !.LimitExceeded = TRUE]]
    ELSE IF Due(c.checkCounter + 1, c.checkInterval)
    THEN IF late
         THEN [ret |-> "ErrQueryTimeout", clock |-> TRUE,
               ctx |-> [c EXCEPT !.checkCounter = @ + 1, !.TimedOut = TRUE]]
         ELSE [ret |-> "nil", clock |-> TRUE,
               ctx |-> [c EXCEPT !.checkCounter = @ + 1]]
    ELSE [ret |-> "nil", clock |-> FALSE,
          ctx |-> [c EXCEPT !.checkCounter = @ + 1]]

\* ctx.CheckLimits()
CheckLimits ==
    /\ ctx.checkCounter < MaxChecks
    /\ LET r == CheckLimitsOn(ctx, pastDeadline)
       IN /\ ctx' = r.ctx
          /\ ckRet' = r.ret
          /\ ckClock' = r.clock
          /\ okRun' = IF r.ret = "nil" /\ pastDeadline
                      THEN (IF ckRet = "nil" THEN okRun ELSE 0) + 1
                      ELSE okRun
    /\ UNCHANGED pastDeadline
    /\ CtxFrame

\* a call of CheckLimits
CheckLimitsCalled ==
    ctx'.checkCounter # ctx.checkCounter \/ ckRet' # ckRet \/ ckClock' # ckClock
       \/ ctx'.LimitExceeded # ctx.LimitExceeded \/ okRun' # okRun

\* C34: CheckLimits reads the clock only on every check_interval-th call
\* that passes the limit checks, so it returns QueryTimeout only on such a
\* call, and once the deadline has passed at most check_interval - 1
\* successive calls return nil before QueryTimeout is returned.
C34_ClockEveryInterval ==
    /\ [][(ckClock' /\ CheckLimitsCalled) =>
             /\ ctx'.checkCounter = ctx.checkCounter + 1
             /\ ctx'.checkCounter % CheckInterval = 0]_vars
    /\ [](ckRet = "ErrQueryTimeout" =>
             ckClock /\ ctx.checkCounter % CheckInterval = 0)
    /\ [](okRun <= CheckInterval - 1)

\* QueryTimeout was returned after check_interval - 1 nil returns that came
\* after the deadline
C34_Witness ==
    /\ ckRet = "ErrQueryTimeout" /\ ctx.TimedOut
    /\ okRun = CheckInterval - 1

NextCtx ==
    \/ DeadlinePasses
    \/ VisitState
    \/ MatchTerm
    \/ CheckLimits

InitCtx == SnapIdle /\ DiskInit /\ InstInit /\ LockInit /\ AuxInit

SpecCtx == InitCtx /\ [][NextCtx]_vars

(***************************************************************************)
(* internal/query: Rewrite                                                 *)
(***************************************************************************)
RewriteFrame == UNCHANGED <<coreVars, fsVars, codecVars, iterVars, topkVars, levVars, dfaVars, ctxVars, writerVars>>

\* BooleanMust, BooleanShould, BooleanMustNot
BooleanOp == {"MUST", "SHOULD", "MUST_NOT"}

\* the terms of the queries
Terms == {"a"}

\* the leaves: a term query stands for every leaf that Rewrite leaves alone
Leaves == {MatchAllQuery, MatchNoneQuery} \cup {TermQuery(t) : t \in Terms}

\* the value of a set of one value
The(s) == CHOOSE x \in s : TRUE

\* the clause lists whose subqueries have n nodes together, from the queries
\* qs[k] of k nodes and the clause lists cs[k + 1] of fewer nodes
ClausesOf(qs, cs, n) ==
    UNION {{<<BooleanClause(o, sub)>> \o rest :
               o \in BooleanOp, sub \in qs[k], rest \in cs[n - k + 1]} :
            k \in 1..n}

\* the queries of n nodes, from the clause lists cs[k + 1] of k nodes
QueriesOf(cs, n) ==
    IF n = 1
    THEN Leaves \cup {BooleanQuery(<<>>, m) : m \in 0..MaxMinShould}
    ELSE {BooleanQuery(clauses, m) : clauses \in cs[n], m \in 0..MaxMinShould}

\* the queries of exactly k nodes (q[k]) and the clause lists whose
\* subqueries have k nodes together (c[k + 1]), for k up to n
RECURSIVE QueryTables(_)
QueryTables(n) ==
    IF n = 0 THEN [q |-> <<>>, c |-> <<{<<>>}>>]
    ELSE The({The({[q |-> qs, c |-> Append(t.c, ClausesOf(qs, t.c, n))] :
                     qs \in {Append(t.q, QueriesOf(t.c, n))}}) :
                t \in {QueryTables(n - 1)}})

\* the queries of at most n nodes
Queries(n) ==
    The({UNION Range(t.q) \cup QueriesOf(t.c, n) : t \in {QueryTables(n - 1)}})

IsBoolean(query) == query.type = "Boolean"

\* canFlatten(outerOccur, inner) without the MUST_NOT test
CanFlattenAny(outerOccur, inner) ==
    \A i \in DOMAIN inner.clauses : inner.clauses[i].occur = outerOccur

\* canFlatten(outerOccur, inner)
CanFlatten(outerOccur, inner) ==
    IF outerOccur = "MUST_NOT" THEN FALSE
    ELSE \A i \in DOMAIN inner.clauses : inner.clauses[i].occur = outerOccur

\* the second loop of rewriteBoolean: the clauses without the MUST clauses
\* that are MatchAll
Filtered(clauses) ==
    LET kept(c) == ~(c.occur = "MUST" /\ c.query = MatchAllQuery)
    IN SelectSeq(clauses, kept)

\* rewriteOnce(q) and, for a Boolean, rewriteBoolean(q)
RECURSIVE RewriteOnce(_)
RewriteOnce(query) ==
    IF ~IsBoolean(query) THEN query
    ELSE
    LET lifted(c) ==
            LET rewritten == RewriteOnce(c.query)
            IN IF IsBoolean(rewritten) /\ CanFlatten(c.occur, rewritten)
               THEN [i \in DOMAIN rewritten.clauses |->
                       BooleanClause(c.occur, rewritten.clauses[i].query)]
               ELSE <<BooleanClause(c.occur, rewritten)>>
        clauses == Concat([i \in DOMAIN query.clauses |-> lifted(query.clauses[i])])
        hasMust == \E i \in DOMAIN clauses : clauses[i].occur = "MUST"
        filtered == Filtered(clauses)
    IN IF \E i \in DOMAIN filtered :
             filtered[i].occur = "MUST" /\ filtered[i].query = MatchNoneQuery
       THEN MatchNoneQuery
       ELSE IF hasMust /\ Len(filtered) = 0
       THEN MatchAllQuery
       ELSE IF Len(filtered) = 1 /\ filtered[1].occur = "MUST"
       THEN filtered[1].query
       ELSE BooleanQuery(filtered, query.msm)

\* queryEqual(a, b); the leaves of the two queries are the same objects
\* when they are equal
RECURSIVE QueryEqual(_, _)
QueryEqual(a, b) ==
    IF a.type # b.type THEN FALSE
    ELSE IF IsBoolean(a)
    THEN /\ Len(a.clauses) = Len(b.clauses)
         /\ \A i \in DOMAIN a.clauses :
               /\ a.clauses[i].occur = b.clauses[i].occur
               /\ QueryEqual(a.clauses[i].query, b.clauses[i].query)
    ELSE a = b

\* Rewrite(q) is called with a query of at most MaxNodes nodes
RewriteInit ==
    /\ original \in Queries(MaxNodes)
    /\ qry = original /\ previous = original
    /\ passes = 0 /\ returned = FALSE

\* one round of the loop of Rewrite
RewritePass ==
    /\ ~returned
    /\ LET rewritten == RewriteOnce(qry)
       IN /\ qry' = rewritten
          /\ returned' = QueryEqual(rewritten, qry)
    /\ previous' = qry
    /\ passes' = passes + 1
    /\ UNCHANGED original
    /\ RewriteFrame

\* the subqueries of the MUST_NOT clauses of a Boolean
MustNotQueries(b) ==
    LET negated(c) == c.occur = "MUST_NOT"
        cs == SelectSeq(b.clauses, negated)
    IN [i \in DOMAIN cs |-> cs[i].query]

\* a pass that makes r of the Boolean b lifts nothing out of a MUST_NOT
\* clause of b or of a Boolean below b: the MUST_NOT clauses of r are those
\* of b, each subquery rewritten, unless a MUST MatchNone collapsed b
RECURSIVE NothingLifted(_, _)
NothingLifted(b, r) ==
    IF ~IsBoolean(b) THEN TRUE
    ELSE /\ MustNotQueries(b) # <<>> =>
              \/ r = MatchNoneQuery
              \/ /\ IsBoolean(r)
                 /\ MustNotQueries(r) =
                      [i \in DOMAIN MustNotQueries(b) |->
                          RewriteOnce(MustNotQueries(b)[i])]
         /\ \A i \in DOMAIN b.clauses :
               NothingLifted(b.clauses[i].query, RewriteOnce(b.clauses[i].query))

\* C35: Rewrite never flattens through MUST_NOT: in no pass, at no depth, are
\* the clauses of a Boolean that is the subquery of a MUST_NOT clause lifted
\* into the enclosing Boolean.
C35_NeverFlattensMustNot ==
    passes > 0 => NothingLifted(previous, qry)

\* a pass left a MUST_NOT clause over a Boolean of MUST_NOT clauses, below
\* the root, as it was
C35_Witness ==
    /\ passes > 0 /\ IsBoolean(qry)
    /\ \E i \in DOMAIN previous.clauses :
          LET sub == previous.clauses[i].query
          IN /\ IsBoolean(sub)
             /\ \E j \in DOMAIN sub.clauses :
                   /\ sub.clauses[j].occur = "MUST_NOT"
                   /\ IsBoolean(sub.clauses[j].query)
                   /\ sub.clauses[j].query.clauses # <<>>
                   /\ CanFlattenAny("MUST_NOT", sub.clauses[j].query)
                   /\ \E k \in DOMAIN qry.clauses :
                         /\ IsBoolean(qry.clauses[k].query)
                         /\ sub.clauses[j] \in Range(qry.clauses[k].query.clauses)

(***************************************************************************)
(* what a query matches                                                    *)
(***************************************************************************)
\* the documents, each the set of the terms it holds
Documents == SUBSET Terms

\* the document matches the query
RECURSIVE Match(_, _)
Match(query, doc) ==
    CASE query.type = "MatchAll" -> TRUE
      [] query.type = "MatchNone" -> FALSE
      [] query.type = "Term" -> query.term \in doc
      [] query.type = "Boolean" ->
           LET of(occur) == {i \in DOMAIN query.clauses :
                                query.clauses[i].occur = occur}
               matching(occur) == {i \in of(occur) :
                                      Match(query.clauses[i].query, doc)}
               atLeast == IF of("MUST") = {} /\ query.msm < 1 THEN 1 ELSE query.msm
           IN /\ matching("MUST") = of("MUST")
              /\ matching("MUST_NOT") = {}
              /\ Cardinality(matching("SHOULD")) >= atLeast

\* C39: Rewrite preserves meaning: a document matches Rewrite(q) if and only
\* if it matches q.
C39_RewritePreservesMeaning ==
    returned => \A doc \in Documents : Match(qry, doc) <=> Match(original, doc)

NextRewrite == RewritePass

InitRewrite ==
    SnapIdle /\ DiskInit /\ InstInit /\ LockInit /\ FsInit /\ CodecInit /\ IterIdle /\ TopKIdle /\ LevIdle /\ DfaIdle /\ CtxInit /\ RewriteInit /\ WriterIdle

SpecRewrite == InitRewrite /\ [][NextRewrite]_vars

(***************************************************************************)
(* internal/indexing: Writer.AddDocument                                   *)
(***************************************************************************)
WriterFrame == UNCHANGED <<coreVars, fsVars, codecVars, iterVars, topkVars, levVars, dfaVars, ctxVars, rewriteVars>>

\* the values of a document field: a string (its bytes), a number, an array
StringValue(bytes) == [kind |-> "string", bytes |-> bytes]
NumberValue == [kind |-> "number"]
ArrayValue(items) == [kind |-> "array", items |-> items]

\* the schemas: a stored text field with positions whose analyzer is or is
\* not registered, then a stored keyword field, multi-valued or not
Schemas ==
    {<<[Name |-> "title", Type |-> "text", Analyzer |-> a, Stored |-> TRUE,
        Positions |-> TRUE, MultiValued |-> FALSE],
       [Name |-> "tag", Type |-> "keyword", Analyzer |-> "", Stored |-> TRUE,
        Positions |-> FALSE, MultiValued |-> m]>> :
        a \in {"standard", "nosuch"}, m \in BOOLEAN}

\* the documents: Fields maps the names that are present to values
DocumentsToAdd ==
    LET ids == {StringValue(<<"1">>), StringValue(<<"2">>), NumberValue}
        titles == {StringValue(<<"a">>), StringValue(<<"a", " ", "a">>),
                   NumberValue}
        tags == {StringValue(<<"b">>), ArrayValue(<<StringValue(<<"b">>)>>),
                 ArrayValue(<<StringValue(<<"b">>), NumberValue>>), NumberValue}
        with(name, values) == {<<>>} \cup {[n \in {name} |-> v] : v \in values}
    IN {[n \in DOMAIN i \cup DOMAIN t \cup DOMAIN g |->
           IF n \in DOMAIN i THEN i[n] ELSE IF n \in DOMAIN t THEN t[n] ELSE g[n]] :
          i \in with("id", ids), t \in with("title", titles),
          g \in with("tag", tags)}

\* a map with one more entry
Put(map, key, value) ==
    [k \in DOMAIN map \cup {key} |-> IF k = key THEN value ELSE map[k]]

\* WriteBuffer.AllocateDocID(externalID)
AllocateDocID(b, externalID) ==
    IF externalID \in DOMAIN b.ExternalToInternal
    THEN [err |-> "ErrDuplicateDoc", docID |-> 0, buffer |-> b]
    ELSE [err |-> "nil", docID |-> b.NextDocID,
          buffer |-> [b EXCEPT !.NextDocID = @ + 1,
                               !.DocCount = @ + 1,
                               !.ExternalToInternal = Put(@, externalID, b.NextDocID)]]

\* WriteBuffer.AddPosting(field, term, docID, freq, positions)
AddPosting(b, field, term, docID, freq, positions) ==
    LET key == <<field, term>>
        known == key \in DOMAIN b.InvertedIndex
        entries == IF known THEN b.InvertedIndex[key] ELSE <<>>
    IN [b EXCEPT
          !.InvertedIndex =
              Put(@, key, Append(entries, [DocID |-> docID, Freq |-> freq,
                                           Positions |-> positions])),
          !.TermCount = IF known THEN @ ELSE @ + 1,
          !.memoryUsed = @ + 16 + Len(positions) * 4]

\* len(field) of a field name of the schemas
FieldNameLen(field) == IF field = "title" THEN 5 ELSE 3

\* WriteBuffer.StoreField(docID, field, value)
StoreField(b, docID, field, value) ==
    [b EXCEPT !.StoredFields = Put(@, <<docID, field>>, value),
              !.memoryUsed = @ + Len(value) + FieldNameLen(field)]

\* extractExternalID(doc)
ExtractExternalID(doc) ==
    IF "id" \notin DOMAIN doc
    THEN [err |-> "document missing 'id' field", id |-> <<>>]
    ELSE IF doc["id"].kind # "string"
    THEN [err |-> "document 'id' must be a string", id |-> <<>>]
    ELSE [err |-> "nil", id |-> doc["id"].bytes]

\* StandardAnalyzer.Analyze(field, text): the runs of word bytes, numbered
\* from 0 (the texts have no upper case)
Analyze(text) ==
    LET word(i) == text[i] # " "
        starts == {i \in DOMAIN text : word(i) /\ (i = 1 \/ ~word(i - 1))}
        end(i) == CHOOSE j \in i..Len(text) :
                     /\ \A k \in i..j : word(k)
                     /\ j = Len(text) \/ ~word(j + 1)
        nth(n) == CHOOSE i \in starts : Cardinality({s \in starts : s < i}) = n
    IN [n \in 1..Cardinality(starts) |->
          [Term |-> SubSeq(text, nth(n - 1), end(nth(n - 1))), Position |-> n - 1]]

\* Writer.indexTextField(fieldDef, docID, val): one posting a term, with
\* its frequency and positions
IndexTextField(b, fieldDef, docID, val) ==
    IF val.kind # "string"
    THEN [err |-> "text field value must be a string", buffer |-> b]
    ELSE IF fieldDef.Analyzer \notin {"", "standard"}
    THEN [err |-> "unknown analyzer", buffer |-> b]
    ELSE LET tokens == Analyze(val.bytes)
             terms == {tokens[i].Term : i \in DOMAIN tokens}
             of(term) == {i \in DOMAIN tokens : tokens[i].Term = term}
             positions(term) ==
                 IF fieldDef.Positions
                 THEN [n \in 1..Cardinality(of(term)) |->
                         tokens[CHOOSE i \in of(term) :
                                  Cardinality({j \in of(term) : j < i}) = n - 1].Position]
                 ELSE <<>>
             RECURSIVE post(_, _)
             post(buf, left) ==
                 IF left = {} THEN buf
                 ELSE LET term == CHOOSE t \in left : TRUE
                      IN post(AddPosting(buf, fieldDef.Name, term, docID,
                                         Cardinality(of(term)), positions(term)),
                              left \ {term})
         IN [err |-> "nil", buffer |-> post(b, terms)]

\* Writer.indexKeywordField(fieldDef, docID, val)
IndexKeywordField(b, fieldDef, docID, val) ==
    CASE val.kind = "string" ->
           [err |-> "nil",
            buffer |-> AddPosting(b, fieldDef.Name, val.bytes, docID, 1, <<>>)]
      [] val.kind = "array" ->
           IF ~fieldDef.MultiValued
           THEN [err |-> "field is not multi-valued but received array",
                 buffer |-> b]
           ELSE LET RECURSIVE items(_, _)
                    items(buf, left) ==
                        IF left = <<>> THEN [err |-> "nil", buffer |-> buf]
                        ELSE IF Head(left).kind # "string"
                        THEN [err |-> "keyword array values must be strings",
                              buffer |-> buf]
                        ELSE items(AddPosting(buf, fieldDef.Name,
                                              Head(left).bytes, docID, 1, <<>>),
                                   Tail(left))
                IN items(b, val.items)
      [] OTHER ->
           [err |-> "keyword field value must be a string or string array",
            buffer |-> b]

\* marshalFieldValue(val): the bytes of a string, the JSON text of the rest
RECURSIVE MarshalFieldValue(_)
MarshalFieldValue(val) ==
    CASE val.kind = "string" -> val.bytes
      [] val.kind = "number" -> <<"7">>
      [] OTHER ->
           LET item(v) == IF v.kind = "string" THEN <<"\"">> \o v.bytes \o <<"\"">>
                          ELSE MarshalFieldValue(v)
               RECURSIVE join(_)
               join(vs) == IF vs = <<>> THEN <<>>
                           ELSE IF Len(vs) = 1 THEN item(vs[1])
                           ELSE item(vs[1]) \o <<",">> \o join(Tail(vs))
           IN <<"[">> \o join(val.items) \o <<"]">>

\* the body of the loop of AddDocument over w.schema.Fields, for the fields
\* that are left
RECURSIVE ForFields(_, _, _, _)
ForFields(b, fields, docID, doc) ==
    IF fields = <<>> THEN [err |-> "nil", buffer |-> b]
    ELSE LET fieldDef == Head(fields)
         IN IF fieldDef.Name \notin DOMAIN doc
            THEN ForFields(b, Tail(fields), docID, doc)
            ELSE LET val == doc[fieldDef.Name]
                     indexed ==
                        CASE fieldDef.Type = "text" ->
                               IndexTextField(b, fieldDef, docID, val)
                          [] fieldDef.Type = "keyword" ->
                               IndexKeywordField(b, fieldDef, docID, val)
                          [] OTHER -> [err |-> "nil", buffer |-> b]
                 IN IF indexed.err # "nil" THEN indexed
                    ELSE ForFields(IF fieldDef.Stored
                                   THEN StoreField(indexed.buffer, docID,
                                                   fieldDef.Name,
                                                   MarshalFieldValue(val))
                                   ELSE indexed.buffer,
                                   Tail(fields), docID, doc)

\* Writer.AddDocument(doc): the error and the buffer it leaves
AddDocumentTo(w, doc) ==
    IF ~w.active THEN [err |-> "ErrWriterNotActive", buffer |-> w.buffer]
    ELSE LET ext == ExtractExternalID(doc)
             alloc == AllocateDocID(w.buffer, ext.id)
         IN IF ext.err # "nil" THEN [err |-> ext.err, buffer |-> w.buffer]
            ELSE IF alloc.err # "nil" THEN [err |-> alloc.err, buffer |-> w.buffer]
            ELSE ForFields(alloc.buffer, w.schema, alloc.docID, doc)

\* a new Writer for one of the schemas
WriterInit ==
    /\ docWriter \in {NewDocWriter(s) : s \in Schemas}
    /\ addRet = "none"
    /\ bufferBefore = NewWriteBuffer

\* w.AddDocument(doc)
AddDocument(doc) ==
    /\ docWriter.buffer.NextDocID < MaxBufferDocs
    /\ LET r == AddDocumentTo(docWriter, doc)
       IN /\ docWriter' = [docWriter EXCEPT !.buffer = r.buffer]
          /\ addRet' = r.err
    /\ bufferBefore' = docWriter.buffer
    /\ WriterFrame

\* w.Release()
WriterRelease ==
    /\ docWriter.active
    /\ docWriter' = [docWriter EXCEPT !.active = FALSE]
    /\ UNCHANGED <<addRet, bufferBefore>>
    /\ WriterFrame

\* C40: a failed Writer.AddDocument leaves the write buffer unchanged: the
\* document count, the next internal doc id, the external-id map, the
\* postings and the stored fields are what they were before the call.
C40_FailedAddLeavesBuffer ==
    addRet \notin {"none", "nil"} =>
       /\ docWriter.buffer.DocCount = bufferBefore.DocCount
       /\ docWriter.buffer.NextDocID = bufferBefore.NextDocID
       /\ docWriter.buffer.ExternalToInternal = bufferBefore.ExternalToInternal
       /\ docWriter.buffer.InvertedIndex = bufferBefore.InvertedIndex
       /\ docWriter.buffer.StoredFields = bufferBefore.StoredFields

NextWriter ==
    \/ \E doc \in DocumentsToAdd : AddDocument(doc)
    \/ WriterRelease

InitWriter ==
    SnapIdle /\ DiskInit /\ InstInit /\ LockInit /\ FsInit /\ CodecInit /\ IterIdle /\ TopKIdle /\ LevIdle /\ DfaIdle /\ CtxInit /\ RewriteIdle /\ WriterInit

SpecWriter == InitWriter /\ [][NextWriter]_vars

====
